---- MODULE Spec2Model ----
(***************************************************************************)
(* A model of the tree completion pipeline of opentau's client             *)
(* (src/client/src/tree.rs): CompletionLevels with its stages new ->       *)
(* prepare -> tree_complete -> disassemble, the per-node tasks of a level, *)
(* the merge strategies and their helpers, and retry_query_until_ok.       *)
(*                                                                         *)
(* Strings are modelled as terms.  A block's code is <<"code", i>>; the    *)
(* reply of the language server to a command is the term of the command    *)
(* and its arguments (the server is an external process: its replies are   *)
(* uninterpreted), a completion of the engine is <<"comp", query, j>>.     *)
(* Rust indices are kept 0-based: a Vec v is the sequence v with v.get(i)  *)
(* read as v[i + 1].                                                       *)
(***************************************************************************)
EXTENDS Integers, Sequences, FiniteSets, TLC

\* ------------------------------------------------------------------ bounds

\* The largest number of nodes of a CodeBlockTree handed to prepare alone.
MaxNodes == 5
\* The largest number of nodes of a tree taken through the whole pipeline.
PipeNodes == 3
\* The largest stop_at and num_comps of a run of the whole pipeline.
PipeStopAt == 1
PipeComps == 1
\* The largest number of failing language server calls in one run.
MaxFaults == 1
\* The width in bits of the modelled usize.
UsizeBits == 7
\* A task run on its own: the most children of its node, the most
\* candidates of a child, the largest stop_at, the largest num_comps.
MaxKids == 2
MaxCands == 3
MaxTaskStopAt == 3
MaxTaskComps == 2
\* retry_query_until_ok run on its own: the largest num_comps of the query.
MaxRetryComps == 2
\* distribute_stop_at run on its own: the largest stop_at and num_children.
MaxDistStopAt == 10
MaxDistChildren == 7
\* count_all_possible_combs run on its own: the most candidates of the
\* child and the largest prompt count.
MaxCombsLen == 5
MaxCombsPrompts == 8
\* A Cache run on its own: the most store operations.
MaxCacheOps == 2
\* Deserializations of CheckProblem on their own: the most of them.
MaxProblemCalls == 2
\* depth_limit on its own: the most blocks of the tree, the largest depth,
\* the most calls in a row.
LimitNodes == 4
MaxDepth == 3
MaxLimitCalls == 2
\* Pipelines on one statistics sink: how many, and the most blocks of the
\* tree of each.
SharedPipes == 2
SharedNodes == 2
\* merge_below_random_poisson on its own: the most prompts, the most
\* candidates of the child, the largest upper that is not near usize::MAX.
MaxPoissonPrompts == 2
MaxPoissonCands == 3
MaxPoissonUpper == 2

\* -------------------------------------------------------------- the inputs

\* A function that is not being run.
Idle == [at |-> "idle"]

None == [tag |-> "None"]
Some(v) == [tag |-> "Some", val |-> v]

Range(s) == {s[i] : i \in DOMAIN s}

RECURSIVE SeqSum(_)
SeqSum(s) == IF s = <<>> THEN 0 ELSE Head(s) + SeqSum(Tail(s))

Max(a, b) == IF a >= b THEN a ELSE b
Min(a, b) == IF a <= b THEN a ELSE b

\* Every enumeration of a finite set without repetition.
RECURSIVE Orders(_)
Orders(S) ==
    IF S = {} THEN {<<>>}
    ELSE UNION {{<<x>> \o t : t \in Orders(S \ {x})} : x \in S}

\* Tree shapes: par[i] is the parent of node i (0 for the root, node 1); the
\* nodes are numbered in source order (pre-order), so the parent of node i is
\* node i - 1 or one of its ancestors, and the children of a node are ordered
\* by number.
RECURSIVE AncestorsOrSelf(_, _)
AncestorsOrSelf(par, i) ==
    IF i = 0 THEN {} ELSE {i} \cup AncestorsOrSelf(par, par[i])

Shapes(max) ==
    UNION {{par \in [1..n -> 0..(n - 1)] :
              /\ par[1] = 0
              /\ \A i \in 2..n : par[i] \in AncestorsOrSelf(par, i - 1)}
           : n \in 1..max}

\* How the generated names are given: "unique" gives every block its own
\* name, "top" names every block as a toplevel node, "same" gives all the
\* inner blocks one name.  A name is <<prefix, rest>>.
NameSchemes == {"unique", "top", "same"}

NameOf(scheme, i) ==
    CASE i = 1 -> <<"topnode", 1>>
      [] scheme = "unique" -> <<"block", i>>
      [] scheme = "top" -> <<"topnode", i>>
      [] OTHER -> <<"block", 0>>

KidsOf(par, i) == {j \in DOMAIN par : par[j] = i}

\* The j-th smallest element of a set of numbers.
RECURSIVE Sorted(_)
Sorted(S) ==
    IF S = {} THEN <<>>
    ELSE LET m == CHOOSE x \in S : \A y \in S : x <= y
         IN <<m>> \o Sorted(S \ {m})

\* struct CodeBlockTree { name, code, children }
RECURSIVE CodeBlockTree(_, _, _)
CodeBlockTree(par, scheme, i) ==
    LET kids == Sorted(KidsOf(par, i))
    IN [name |-> NameOf(scheme, i),
        code |-> <<"code", i>>,
        children |-> [j \in 1..Len(kids) |-> CodeBlockTree(par, scheme, kids[j])]]

TreeInputs(max) ==
    {CodeBlockTree(par, sch, 1) : par \in Shapes(max), sch \in NameSchemes}

\* The height (in edges) of a tree.
RECURSIVE TreeHeight(_)
TreeHeight(t) ==
    IF t.children = <<>> THEN 0
    ELSE 1 + (CHOOSE h \in {TreeHeight(t.children[j]) : j \in DOMAIN t.children} :
                \A j \in DOMAIN t.children : TreeHeight(t.children[j]) <= h)

\* struct HyperParams; types is carried through to pretty_print only.
HyperParams(stop_at, num_comps, usgs, stb) ==
    [retries |-> 1, num_comps |-> num_comps, fallback |-> FALSE,
     usages |-> usgs, stub |-> stb, stop_at |-> stop_at,
     types |-> <<"VarDecl">>]

\* The runs of the whole pipeline ask for usages (a "top" tree has none)
\* and stub their prompts.
ParamInputs == {HyperParams(s, PipeComps, TRUE, TRUE) : s \in 0..PipeStopAt}

\* struct TreeAlgoStats (Default), behind Option<Arc<Mutex<_>>>.
TreeAlgoStats ==
    [num_nodes |-> 0, num_usages_per_node |-> <<>>, num_comps_per_node |-> <<>>]

StatsInputs == {None, Some(TreeAlgoStats)}

\* ------------------------------------------------------------------- state

VARIABLES
    tree,          \* the CodeBlockTree handed to prepare
    params,        \* CompletionLevels.params
    stats,         \* CompletionLevels.stats
    stage,         \* the type state of the pipeline value, or how it ended
    ran,           \* history: the stage operations that ran, in order
    pc,            \* the position inside prepare / tree_complete
    levels,        \* CompletionLevels.levels (prepare: its local levels)
    nodes,         \* prepare: the frontier being built
    p_children,    \* prepare: the (p_idx, children) still to iterate
    new_children,  \* prepare: the next p_children
    asked,         \* history: the usages calls of prepare, (outer, inner)
    level,         \* tree_complete: the loop variable
    prev_level,    \* tree_complete: Arc<Option<Vec<CompNode>>>
    handles,       \* tree_complete: per level, the tasks spawned for it
    lookup,        \* tree_complete: name -> idx
    joined,        \* tree_complete: the handles awaited so far
    faults,        \* the language server calls that failed so far
    output,        \* what disassemble returned
    task,          \* one task of spawn_parallel_comp, run on its own
    retry,         \* one call of retry_query_until_ok, run on its own
    dist,          \* one call of distribute_stop_at, run on its own
    count,         \* one call of count_all_possible_combs, run on its own
    merge,         \* the merges of one node's children, run on their own
    cache,         \* one Cache, its operations run on their own
    problem,       \* deserializations of CheckProblem, run on their own
    limited,       \* one call of depth_limit, run on its own
    shared,        \* pipelines in prepare on one statistics sink
    pmerge        \* one call of merge_below_random_poisson, run on its own

prepVars == <<nodes, p_children, new_children, asked>>
compVars == <<level, prev_level, handles, lookup, joined>>
pipeVars == <<tree, stats, stage, ran, pc, levels, nodes, p_children,
              new_children, asked, level, prev_level, handles, lookup, joined, output>>
moreVars == <<problem, limited, shared, pmerge>>
fnVars == <<task, retry, dist, count, merge, cache, moreVars>>
vars == <<tree, params, stats, stage, ran, pc, levels, nodes, p_children,
          new_children, asked, level, prev_level, handles, lookup, joined, faults,
          output, task, retry, dist, count, merge, cache, problem, limited,
          shared, pmerge>>

\* ------------------------------------------------------- statistics sink

\* stats::if_some_modify: the update (`modified`, the statistics after
\* f) is made under the lock, or not at all.
if_some_modify(opt, modified) ==
    IF opt.tag = "Some" THEN Some(modified) ELSE opt

IncNodes(s) == [s EXCEPT !.num_nodes = @ + 1]
increase_node_count(opt) == if_some_modify(opt, IncNodes(opt.val))

\* HashMap::insert on a map kept as a function.
MapInsert(m, k, v) ==
    [x \in DOMAIN m \cup {k} |-> IF x = k THEN v ELSE m[x]]

insert_usages(opt, name, num_usages) ==
    if_some_modify(opt, [opt.val EXCEPT !.num_usages_per_node =
                                           MapInsert(@, name, num_usages)])

insert_num_comps(opt, name, num_comps) ==
    if_some_modify(opt, [opt.val EXCEPT !.num_comps_per_node =
                                           MapInsert(@, name, num_comps)])

\* ------------------------------------------------------- language server

\* The replies of the language server to weave, stub, print and usages.
weave(original, nettle, lvl) == <<"weave", original, nettle, lvl>>
stub(code) == <<"stub", code>>
pretty_print(code, type_name, types) == <<"print", code, type_name>>
usages(outer_block, inner_block) == <<"usages", outer_block, inner_block>>

\* A wrong starts_with_topnode: the name of the root only.
is_first_topnode(name) == name = <<"topnode", 1>>

\* child.name.starts_with("topnode")
starts_with_topnode(name) == name[1] = "topnode"

\* ----------------------------------------------------------------- prepare

CompNode(children_idxs, name, code, completed, usg) ==
    [children_idxs |-> children_idxs, name |-> name, code |-> code,
     completed |-> completed, usages |-> usg]

\* The pairs a `for (p_idx, children) in p_children` still has to visit,
\* without the entries whose children are used up.
RECURSIVE Pending(_)
Pending(pc_) ==
    IF pc_ = <<>> THEN <<>>
    ELSE IF Head(pc_)[2] = <<>> THEN Pending(Tail(pc_))
    ELSE pc_

\* `while !nodes.is_empty()`
WhileNodes(ns, pch) == ns # <<>>

\* `let idx = nodes.len()`: the place the child will have in its level.
ChildIdx(ns) == Len(ns)

\* A wrong PatchParent: the index is taken after the child was pushed.
PatchParentAfterPush(lvls, lvl, p_idx, idx) ==
    [lvls EXCEPT ![lvl + 1][p_idx + 1].children_idxs = Append(@, idx + 1)]

\* A wrong PatchParent: the index goes to the last node of the level.
PatchLastParent(lvls, lvl, p_idx, idx) ==
    [lvls EXCEPT ![lvl + 1][Len(lvls[lvl + 1])].children_idxs = Append(@, idx)]

\* `parent.children_idxs.push(idx)`, the parent at p_idx of the last level.
PatchParent(lvls, lvl, p_idx, idx) ==
    [lvls EXCEPT ![lvl + 1][p_idx + 1].children_idxs = Append(@, idx)]

\* A wrong CanPrepare: the value is still there after prepare returned Err.
CanPrepareAfterErr == stage \in {"New", "PrepareFailed"}

\* A value of type CompletionLevels<NewState> can call prepare.
CanPrepare == stage = "New"

\* prepare, up to the while loop.
PrepareBegin ==
    /\ CanPrepare
    /\ stage' = "Preparing"
    /\ ran' = Append(ran, "prepare")
    /\ levels' = <<>>
    /\ nodes' = <<CompNode(<<>>, tree.name, tree.code, <<>>, <<>>)>>
    /\ p_children' = <<<<0, tree.children>>>>
    /\ new_children' = <<>>
    /\ asked' = <<>>
    /\ pc' = "while"
    /\ UNCHANGED <<tree, params, stats, compVars, faults, output, fnVars>>

\* while !nodes.is_empty() { levels.push(CompLevel { nodes }); ... }
PrepareLevel ==
    /\ stage = "Preparing" /\ pc = "while"
    /\ WhileNodes(nodes, p_children)
    /\ levels' = Append(levels, nodes)
    /\ nodes' = <<>>
    /\ new_children' = <<>>
    /\ pc' = "for"
    /\ UNCHANGED <<tree, params, stats, stage, ran, p_children, asked, compVars,
                   faults, output, fnVars>>

\* The body of the inner for loop, for the next child.  The usages call may
\* fail, and `?` then returns the error: the pipeline value is gone.
PrepareChild ==
    /\ stage = "Preparing" /\ pc = "for"
    /\ Pending(p_children) # <<>>
    /\ LET rest == Pending(p_children)
           p_idx == rest[1][1]
           child == Head(rest[1][2])
           idx == ChildIdx(nodes)
           lvl == Len(levels) - 1
           parent == levels[lvl + 1][p_idx + 1]
           patched == PatchParent(levels, lvl, p_idx, idx)
           counted == increase_node_count(stats)
           ask == params.usages /\ ~starts_with_topnode(child.name)
       IN \E ok \in (IF ask /\ faults < MaxFaults THEN BOOLEAN ELSE {TRUE}) :
            /\ faults' = (IF ok THEN faults ELSE faults + 1)
            /\ asked' = (IF ask THEN Append(asked, <<parent.code, child.code>>)
                         ELSE asked)
            /\ IF ok
               THEN /\ levels' = patched
                    /\ stats' = (IF ask THEN insert_usages(counted, child.name, 1)
                                 ELSE counted)
                    /\ nodes' = Append(nodes,
                           CompNode(<<>>, child.name, child.code, <<>>,
                                    IF ask THEN usages(parent.code, child.code)
                                    ELSE <<>>))
                    /\ new_children' = Append(new_children, <<idx, child.children>>)
                    /\ p_children' = <<<<p_idx, Tail(rest[1][2])>>>> \o Tail(rest)
                    /\ UNCHANGED <<stage, pc>>
               ELSE /\ stats' = counted
                    /\ stage' = "PrepareFailed"
                    /\ pc' = "returned"
                    /\ levels' = <<>>
                    /\ nodes' = <<>>
                    /\ new_children' = <<>>
                    /\ p_children' = <<>>
    /\ ran' = (IF stage' = "PrepareFailed" THEN Append(ran, "Err") ELSE ran)
    /\ UNCHANGED <<tree, params, compVars, output, fnVars>>

\* The for loops are through: p_children = new_children.
PrepareNext ==
    /\ stage = "Preparing" /\ pc = "for"
    /\ Pending(p_children) = <<>>
    /\ p_children' = new_children
    /\ new_children' = <<>>
    /\ pc' = "while"
    /\ UNCHANGED <<tree, params, stats, stage, ran, levels, nodes, asked,
                   compVars, faults, output, fnVars>>

\* The while loop is through: Ok(CompletionLevels<PreparedState>).
PrepareEnd ==
    /\ stage = "Preparing" /\ pc = "while"
    /\ ~WhileNodes(nodes, p_children)
    /\ stage' = "Prepared"
    /\ pc' = "returned"
    /\ UNCHANGED <<tree, params, stats, ran, levels, prepVars, compVars,
                   faults, output, fnVars>>

\* ------------------------------------------------------- merge helpers

\* usize::MAX and usize::checked_mul, for a usize of UsizeBits bits.
USIZE_MAX == 2^UsizeBits - 1

\* A wrong checked_mul: the product wraps around.
wrapping_mul(a, b) == Some((a * b) % (USIZE_MAX + 1))

checked_mul(a, b) == IF a * b > USIZE_MAX THEN None ELSE Some(a * b)

\* A wrong CombsIter: the sizes are added up.
CombsIterSum(st, len) ==
    IF st.res + len > USIZE_MAX
    THEN [st EXCEPT !.ret = Some(USIZE_MAX)]
    ELSE [st EXCEPT !.res = @ + len, !.i = @ + 1]

\* count_all_possible_combs: one iteration of `for _ in 0..curr_prompts`.
CombsIter(st, len) ==
    LET mul == checked_mul(st.res, len)
    IN IF mul.tag = "Some"
       THEN [st EXCEPT !.res = mul.val, !.i = @ + 1]
       ELSE [st EXCEPT !.ret = Some(USIZE_MAX)]

RECURSIVE CombsLoop(_, _, _)
CombsLoop(st, curr_prompts, len) ==
    IF st.ret.tag = "Some" THEN st.ret.val
    ELSE IF st.i < curr_prompts
         THEN CombsLoop(CombsIter(st, len), curr_prompts, len)
         ELSE st.res

count_all_possible_combs(child, curr_prompts) ==
    CombsLoop([res |-> 1, i |-> 0, ret |-> None], curr_prompts,
              Len(child.completed))

\* A wrong DistIter: the index is not advanced.
DistIterStuck(st, num_children) ==
    [res |-> [st.res EXCEPT ![st.i + 1] = @ + 1],
     stop_at |-> st.stop_at - 1,
     i |-> st.i]

\* distribute_stop_at: one iteration of `while stop_at > 0`.
DistIter(st, num_children) ==
    [res |-> [st.res EXCEPT ![st.i + 1] = @ + 1],
     stop_at |-> st.stop_at - 1,
     i |-> (st.i + 1) % num_children]

RECURSIVE DistLoop(_, _)
DistLoop(st, num_children) ==
    IF st.stop_at > 0 THEN DistLoop(DistIter(st, num_children), num_children)
    ELSE st.res

distribute_stop_at(stop_at, num_children) ==
    DistLoop([res |-> [j \in 1..num_children |-> 0], stop_at |-> stop_at,
              i |-> 0], num_children)

\* A wrong NettleLevel: the level of the task as it is.
NettleLevelAsIs(lvl) == lvl

\* `std::cmp::min(1, level)`, the nettle level of the weaves of a merge.
NettleLevel(lvl) == Min(1, lvl)

\* A wrong merge_below_all_combs: a child without candidates is passed
\* over and the prompts are kept.
merge_below_all_combs_or_keep(child, lvl, prompts_set) ==
    IF child.completed = <<>> THEN prompts_set
    ELSE {weave(p, c, NettleLevel(lvl)) : p \in prompts_set, c \in Range(child.completed)}

\* A wrong merge_below_all_combs: the weaves are added to the prompts.
merge_below_all_combs_extend(child, lvl, prompts_set) ==
    prompts_set
    \cup {weave(p, c, NettleLevel(lvl)) : p \in prompts_set, c \in Range(child.completed)}

\* merge_below_all_combs: the new prompts_set (every weave answered).
merge_below_all_combs(child, lvl, prompts_set) ==
    {weave(p, c, NettleLevel(lvl)) : p \in prompts_set, c \in Range(child.completed)}

\* all_combs, for the prompts in the order the HashSet iterates them.
all_combs(prompts, comps, upper) ==
    LET cap == IF upper.tag = "Some" THEN upper.val ELSE USIZE_MAX
        n == Min(cap, Len(prompts) * Len(comps))
    IN [k \in 1..n |-> <<prompts[((k - 1) \div Len(comps)) + 1],
                         comps[((k - 1) % Len(comps)) + 1]>>]

\* HashSet::into_iter().collect(): the elements in one order.
RECURSIVE Collect(_)
Collect(S) ==
    IF S = {} THEN <<>>
    ELSE LET x == CHOOSE y \in S : TRUE IN <<x>> \o Collect(S \ {x})

\* Vec::remove(idx), idx 0-based.
RemoveAt(s, idx) == SubSeq(s, 1, idx) \o SubSeq(s, idx + 2, Len(s))

\* merge_below_random_poisson: the loop, for every index the samples can
\* give.  A sample is any number; one that is out of bounds is set to the
\* last index, so every index of the list can be the one picked.
RECURSIVE PoissonLoop(_, _, _, _)
PoissonLoop(combs, new_prompts, upper, lvl) ==
    IF Cardinality(new_prompts) < upper /\ combs # <<>>
    THEN UNION {PoissonLoop(RemoveAt(combs, idx),
                            new_prompts \cup {weave(combs[idx + 1][1],
                                                    combs[idx + 1][2],
                                                    NettleLevel(lvl))},
                            upper, lvl) : idx \in 0..(Len(combs) - 1)}
    ELSE {new_prompts}

\* The new prompts_set values merge_below_random_poisson can leave.  The
\* order of prompts_set is the HashSet's; completed was collected from a
\* HashSet, so its order is arbitrary too and is drawn here, where it is read.
merge_below_random_poisson(child, lvl, upper, prompts_set) ==
    LET combs_upper == upper * 5
        cut == Cardinality(prompts_set) * Len(child.completed) > combs_upper
    IN UNION {PoissonLoop(all_combs(ps, cs, Some(combs_upper)), {}, upper, lvl) :
                ps \in (IF cut THEN Orders(prompts_set)
                        ELSE {Collect(prompts_set)}),
                cs \in (IF cut THEN Orders(Range(child.completed))
                        ELSE {child.completed})}

\* A wrong UsePoisson: a count that equals the budget is taken as too large.
UsePoissonAtBudget(child, upper, prompts_set) ==
    count_all_possible_combs(child, Cardinality(prompts_set)) >= upper

\* `if all_combs_num > upper`
UsePoisson(child, upper, prompts_set) ==
    count_all_possible_combs(child, Cardinality(prompts_set)) > upper

\* The choice between the two strategies (spawn_parallel_comp), as the set
\* of prompts_set values the merge of one child can leave.
MergeChild(child, lvl, upper, prompts_set) ==
    IF UsePoisson(child, upper, prompts_set)
    THEN merge_below_random_poisson(child, lvl, upper, prompts_set)
    ELSE {merge_below_all_combs(child, lvl, prompts_set)}

\* Whether the merge of one child calls weave at all.
MergeWeaves(child, upper, prompts_set) ==
    /\ prompts_set # {}
    /\ child.completed # <<>>
    /\ (count_all_possible_combs(child, Cardinality(prompts_set)) > upper
          => upper > 0)

\* A wrong ChildIdxOf: the children are taken as the first of the level.
ChildIdxByPlace(node, j) == j - 1

\* The j-th child_idx of `node.children_idxs.iter()`.
ChildIdxOf(node, j) == node.children_idxs[j]

\* `for (child_idx, upper) in node.children_idxs.iter().zip(stop_at_dist)`,
\* from the j-th child on: the outcomes [prompts_set, weaves, panic], panic
\* when a child_idx is not in level_below.
RECURSIVE MergeFrom(_, _, _, _, _, _, _)
MergeFrom(j, node, level_below, lvl, stop_at_dist, prompts_set, weaves) ==
    IF j > Len(node.children_idxs)
    THEN {[prompts_set |-> prompts_set, weaves |-> weaves, panic |-> FALSE]}
    ELSE LET child_idx == ChildIdxOf(node, j)
             upper == stop_at_dist[j]
         IN IF child_idx >= Len(level_below)
            THEN {[prompts_set |-> prompts_set, weaves |-> weaves, panic |-> TRUE]}
            ELSE LET child == level_below[child_idx + 1]
                 IN UNION {MergeFrom(j + 1, node, level_below, lvl, stop_at_dist,
                                     ps, weaves \/ MergeWeaves(child, upper, prompts_set))
                           : ps \in MergeChild(child, lvl, upper, prompts_set)}

\* ------------------------------------------------------------- the engine

Ok(v) == [tag |-> "Ok", val |-> v]
Err(e) == [tag |-> "Err", err |-> e]

\* The completions the engine can give for a query: the first m of them,
\* at most q.num_comps.
Completion(q, j) == [code |-> <<"comp", q.input, j>>]
Completions(q, m) == [j \in 1..m |-> Completion(q, j)]

\* An answer that gives one completion twice.
Repeats(q) ==
    IF q.num_comps >= 2 THEN {[j \in 1..2 |-> Completion(q, 1)]} ELSE {}

\* What one call of engine.complete(q) can answer.
EngineAnswers(q) ==
    {Err("RateLimit"), Err("Other")}
    \cup {Ok(Completions(q, m)) : m \in 0..q.num_comps}
    \cup {Ok(comps) : comps \in Repeats(q)}

\* What the successive calls of engine.complete(q) answer; the last answer
\* of a run repeats.
EngineRuns(q) ==
    {<<Err("RateLimit")>>, <<Err("Other")>>}
    \cup {<<Ok(Completions(q, m))>> : m \in 0..q.num_comps}
    \cup {<<Ok(comps)>> : comps \in Repeats(q)}
    \cup {<<Err("RateLimit"), Err("Other"), Ok(Completions(q, m))>> :
             m \in 1..q.num_comps}

AnswerAt(run, k) == run[Min(k, Len(run))]

\* What a call answered, for the history of a retry loop.
Outcome(answer) == IF answer.tag = "Ok" THEN "Ok" ELSE answer.err

\* retry_query_until_ok: the state after the first call.
RetryInit(answer) ==
    [res |-> answer, retries |-> 0, calls |-> 1, ret |-> None, at |-> "while",
     trace |-> <<Outcome(answer)>>]

\* retry_query_until_ok: one pass of `while res.is_err()`, the engine
\* answering `answer` if it is called; or the return after the loop.
RetryIter(st, answer) ==
    IF st.res.tag = "Err"
    THEN IF st.retries > 5
         THEN [st EXCEPT !.at = "returned", !.ret = None]
         ELSE [st EXCEPT !.retries = @ + 1, !.res = answer, !.calls = @ + 1,
                         !.trace = Append(@, Outcome(answer))]
    ELSE [st EXCEPT !.at = "returned", !.ret = Some(st.res.val)]

RECURSIVE RetryLoop(_, _)
RetryLoop(st, run) ==
    IF st.at = "returned" THEN st
    ELSE RetryLoop(RetryIter(st, AnswerAt(run, st.calls + 1)), run)

\* The Option<Vec<Completion>> returned for a run of the engine.
retry_query_until_ok(run) == RetryLoop(RetryInit(AnswerAt(run, 1)), run).ret

\* ----------------------------------------------------------- tree_complete

\* The query built for a prompt (spawn_parallel_comp).
CompletionQuery(printed) ==
    [input |-> printed, num_comps |-> params.num_comps,
     retries |-> params.retries, fallback |-> params.fallback,
     problem_whitelist |-> <<"ChangedComments">>]

QueryFor(node, prompt) ==
    LET stubbed == IF params.stub THEN stub(prompt) ELSE prompt
        printed == pretty_print(stubbed, "_hole_", params.types)
    IN CompletionQuery(IF node.usages # <<>>
                       THEN <<"format", node.usages, printed>>
                       ELSE printed)

\* The task spawn_parallel_comp spawns: what it captured and its locals.
\* nprompts, queries and budgets are history: the size of prompts_set after
\* the merges, the queries submitted, the stop_at_dist handed out; so are
\* called, the commands of the language server and the engine the task
\* called, and log, per prompt queried what retry_query_until_ok gave and
\* which of the weaves failed.
Task(node, lvl, prev) ==
    [st |-> "spawned", node |-> node, level |-> lvl, prev_level |-> prev,
     prompts |-> <<>>, new_comps |-> {}, result |-> None,
     nprompts |-> 0, queries |-> 0, budgets |-> <<>>,
     called |-> {}, log |-> <<>>]

\* The task called these commands.
Called(t, cmds) == [t EXCEPT !.called = @ \cup cmds]

\* A wrong Panicked: the task returns no candidates instead.
ReturnedNothing(t) ==
    [t EXCEPT !.st = "finished", !.result = Some(<<t.node.name, <<>>>>)]

\* The task panicked (an unwrap of an Err or of None).
Panicked(t) == [t EXCEPT !.st = "panicked"]

\* The task returns (node.name, comps).
Finished(t, comps) ==
    [t EXCEPT !.st = "finished", !.result = Some(<<t.node.name, comps>>)]

\* A wrong Merged: the prompts of the root are queried like any others.
MergedQueried(t, prompts_set, budgets) ==
    LET prompts == Collect(prompts_set)
        u == [t EXCEPT !.nprompts = Cardinality(prompts_set),
                       !.budgets = budgets]
    IN IF prompts = <<>> THEN [u EXCEPT !.st = "finished",
                                        !.result = Some(<<t.node.name, <<>>>>)]
       ELSE [u EXCEPT !.st = "querying", !.prompts = prompts]

\* After the merges: at the root the prompts are the result, elsewhere
\* they are queried one after the other.
Merged(t, prompts_set, budgets) ==
    LET prompts == Collect(prompts_set)
        u == [t EXCEPT !.nprompts = Cardinality(prompts_set),
                       !.budgets = budgets]
    IN IF t.level = 0 THEN Finished(u, prompts)
       ELSE IF prompts = <<>> THEN Finished(u, <<>>)
       ELSE [u EXCEPT !.st = "querying", !.prompts = prompts]

\* A wrong CanTreeComplete: tree_complete that does not consume its value.
CanTreeCompleteAgain == stage \in {"Prepared", "Completed"}

\* A value of type CompletionLevels<PreparedState> can call tree_complete.
CanTreeComplete == stage = "Prepared"

TreeCompleteBegin ==
    /\ CanTreeComplete
    /\ stage' = "Completing"
    /\ ran' = Append(ran, "tree_complete")
    /\ prev_level' = None
    /\ handles' = [l \in 1..Len(levels) |-> <<>>]
    /\ lookup' = <<>>
    /\ joined' = 0
    /\ IF Len(levels) = 0
       THEN /\ pc' = "end" /\ level' = 0
       ELSE /\ pc' = "spawn" /\ level' = Len(levels) - 1
    /\ UNCHANGED <<tree, params, stats, levels, prepVars, faults, output, fnVars>>

\* The names of the level's nodes, each with the index inserted last.
Lookup(ns) ==
    [nm \in {ns[i].name : i \in DOMAIN ns} |->
        (CHOOSE i \in DOMAIN ns :
            /\ ns[i].name = nm
            /\ \A k \in DOMAIN ns : ns[k].name = nm => k <= i) - 1]

\* `for (i, node) in nodes.iter().enumerate()`: one task per node.
SpawnLevel ==
    /\ stage = "Completing" /\ pc = "spawn"
    /\ LET ns == levels[level + 1]
       IN /\ handles' = [handles EXCEPT ![level + 1] =
                            [i \in DOMAIN ns |-> Task(ns[i], level, prev_level)]]
          /\ lookup' = Lookup(ns)
    /\ joined' = 0
    /\ pc' = "join"
    /\ UNCHANGED <<tree, params, stats, stage, ran, levels, prepVars, level,
                   prev_level, faults, output, fnVars>>

\* A wrong EffectiveStopAt: stop_at as configured.
ConfiguredStopAt(stop_at, num_children) == stop_at

\* `let stop_at = std::cmp::max(stop_at, num_children)`
EffectiveStopAt(stop_at, num_children) == Max(stop_at, num_children)

\* A task from its start to its first query (the merges of the children):
\* the states [task, used] it can come to, `used` language server calls
\* failing of the `budget` that may.
TaskMergeSteps(t, budget) ==
    LET node == t.node
        num_children == Len(node.children_idxs)
    IN IF node.children_idxs = <<>>
       THEN {[task |-> Merged(t, {node.code}, <<>>), used |-> 0]}
       ELSE IF t.prev_level.tag = "None"
       THEN {[task |-> Panicked(t), used |-> 0]}
       ELSE LET level_below == t.prev_level.val
                stop_at == EffectiveStopAt(params.stop_at, num_children)
                stop_at_dist == distribute_stop_at(stop_at, num_children)
                outs == MergeFrom(1, node, level_below, t.level, stop_at_dist,
                                  {node.code}, FALSE)
                wove(o) == IF o.weaves THEN {"weave"} ELSE {}
            IN {[task |-> IF o.panic THEN Panicked(t)
                          ELSE Merged(Called(t, wove(o)), o.prompts_set,
                                      stop_at_dist),
                 used |-> 0] : o \in outs}
               \cup {[task |-> Panicked(Called(t, {"weave"})), used |-> 1] :
                       o \in {x \in outs : x.weaves /\ ~x.panic /\ budget > 0}}

\* A wrong Rewoven: a candidate whose weave fails is dropped.
RewovenOrDropped(prompt, comps, failing) ==
    {weave(prompt, comps[j].code, 0) : j \in DOMAIN comps \ failing}

\* The candidates of one query, woven into the prompt; the weave of those
\* in `failing` fails and the candidate is kept as it came.
Rewoven(prompt, comps, failing) ==
    {IF j \in failing THEN comps[j].code ELSE weave(prompt, comps[j].code, 0)
       : j \in DOMAIN comps}

\* `match comps`: the candidates of Some(comps), none of None.
Got(comps) == IF comps.tag = "Some" THEN comps.val ELSE <<>>

\* A wrong Queried: a prompt without an answer ends the loop over prompts.
QueriedOrGaveUp(t, comps, failing) ==
    LET prompt == Head(t.prompts)
        u == [t EXCEPT !.prompts = IF comps.tag = "Some" THEN Tail(@) ELSE <<>>,
                       !.queries = @ + 1,
                       !.new_comps = @ \cup Rewoven(prompt, Got(comps), failing),
                       !.log = Append(@, [prompt |-> prompt, comps |-> comps,
                                          failing |-> failing])]
    IN IF u.prompts = <<>> THEN Finished(u, Collect(u.new_comps)) ELSE u

\* The task after the pass for its next prompt, retry_query_until_ok
\* having returned comps: the candidates are inserted into new_comps, and
\* after the last prompt the task returns new_comps.
Queried(t, comps, failing) ==
    LET prompt == Head(t.prompts)
        u == [t EXCEPT !.prompts = Tail(@),
                       !.queries = @ + 1,
                       !.new_comps = @ \cup Rewoven(prompt, Got(comps), failing),
                       !.log = Append(@, [prompt |-> prompt, comps |-> comps,
                                          failing |-> failing])]
    IN IF u.prompts = <<>> THEN Finished(u, Collect(u.new_comps)) ELSE u

\* One pass of `for prompt in prompts.iter()` at a level above 0: the
\* states [task, used] it can come to.  stub or pretty_print failing is a
\* panic; a weave failing keeps the candidate.
TaskQuerySteps(t, budget) ==
    LET prompt == Head(t.prompts)
        q == QueryFor(t.node, prompt)
        stubbing == IF params.stub THEN {"stub"} ELSE {}
        answered(run) ==
            LET comps == retry_query_until_ok(run)
                cmds == stubbing \cup {"pretty_print", "complete"}
                          \cup (IF Got(comps) # <<>> THEN {"weave"} ELSE {})
            IN {[task |-> Queried(Called(t, cmds), comps, failing),
                 used |-> Cardinality(failing)] :
                  failing \in {f \in SUBSET (DOMAIN Got(comps)) :
                                 Cardinality(f) <= budget}}
    IN {[task |-> Panicked(Called(t, cmds)), used |-> 1] :
          cmds \in {c \in {stubbing, stubbing \cup {"pretty_print"}} :
                      c # {} /\ budget > 0}}
       \cup UNION {answered(run) : run \in EngineRuns(q)}

\* The steps of the tasks the pipeline spawned.
TaskMerge(l, i) ==
    /\ handles[l][i].st = "spawned"
    /\ \E o \in TaskMergeSteps(handles[l][i], MaxFaults - faults) :
         /\ handles' = [handles EXCEPT ![l][i] = o.task]
         /\ faults' = faults + o.used
    /\ UNCHANGED <<tree, params, stats, stage, ran, pc, levels, prepVars, level,
                   prev_level, lookup, joined, output, fnVars>>

TaskQuery(l, i) ==
    /\ handles[l][i].st = "querying"
    /\ \E o \in TaskQuerySteps(handles[l][i], MaxFaults - faults) :
         /\ handles' = [handles EXCEPT ![l][i] = o.task]
         /\ faults' = faults + o.used
    /\ UNCHANGED <<tree, params, stats, stage, ran, pc, levels, prepVars, level,
                   prev_level, lookup, joined, output, fnVars>>

\* `let (name, comps) = handle.await.unwrap()` and the rest of the pass.
Join ==
    /\ stage = "Completing" /\ pc = "join"
    /\ joined < Len(handles[level + 1])
    /\ LET t == handles[level + 1][joined + 1]
       IN \/ /\ t.st = "finished"
             /\ LET name == t.result.val[1]
                    comps == t.result.val[2]
                    idx == lookup[name]
                IN /\ stats' = insert_num_comps(stats, name, Len(comps))
                   /\ levels' = [levels EXCEPT ![level + 1][idx + 1].completed = comps]
             /\ handles' = [handles EXCEPT ![level + 1][joined + 1].st = "joined"]
             /\ joined' = joined + 1
             /\ UNCHANGED <<stage, pc>>
          \/ /\ t.st = "panicked"
             /\ stage' = "Aborted"
             /\ pc' = "returned"
             /\ levels' = <<>>
             /\ UNCHANGED <<stats, handles, joined>>
    /\ ran' = (IF stage' = "Aborted" THEN Append(ran, "panic") ELSE ran)
    /\ UNCHANGED <<tree, params, prepVars, level, prev_level, lookup,
                   faults, output, fnVars>>

\* A wrong AllJoined: the join loop left after its first handle.
FirstJoined(hs, n) == n >= 1

\* `for (i, handle) in handles.into_iter().enumerate()` is through.
AllJoined(hs, n) == n = Len(hs)

\* A wrong Snapshot: always the deepest level.
SnapshotDeepest(lvls, l) == Some(lvls[Len(lvls)])

\* `Arc::new(Some(nodes.clone()))`, nodes being the level just joined.
Snapshot(lvls, l) == Some(lvls[l + 1])

\* `prev_level = ...` after the join loop, and the next level.
EndLevel ==
    /\ stage = "Completing" /\ pc = "join"
    /\ AllJoined(handles[level + 1], joined)
    /\ prev_level' = Snapshot(levels, level)
    /\ IF level > 0
       THEN /\ level' = level - 1 /\ pc' = "spawn"
       ELSE /\ level' = level /\ pc' = "end"
    /\ UNCHANGED <<tree, params, stats, stage, ran, levels, prepVars, handles,
                   lookup, joined, faults, output, fnVars>>

\* The loop is through: CompletionLevels<CompletedState>.
TreeCompleteEnd ==
    /\ stage = "Completing" /\ pc = "end"
    /\ stage' = "Completed"
    /\ pc' = "returned"
    /\ UNCHANGED <<tree, params, stats, ran, levels, prepVars, compVars, faults,
                   output, fnVars>>

\* ------------------------------------------------------------- disassemble

\* A value of type CompletionLevels<CompletedState> can call disassemble.
CanDisassemble == stage = "Completed"

\* A wrong RootCompleted: the first candidate is left out.
RootCompletedButFirst(lvls) == Tail(lvls[1][1].completed)

\* `self.levels[0].nodes.remove(0).completed`, the value returned.
RootCompleted(lvls) == lvls[1][1].completed

\* self.levels[0].nodes.remove(0).completed
Disassemble ==
    /\ CanDisassemble
    /\ stage' = "Disassembled"
    /\ ran' = Append(ran, "disassemble")
    /\ IF Len(levels) > 0 /\ Len(levels[1]) > 0
       THEN /\ output' = Some(RootCompleted(levels))
            /\ levels' = [levels EXCEPT ![1] = Tail(@)]
       ELSE /\ output' = [tag |-> "panic"]
            /\ levels' = levels
    /\ UNCHANGED <<tree, params, stats, pc, prepVars, compVars, faults, fnVars>>

\* ------------------------------------------------------------ the pipeline

\* CompletionLevels::new(hyperparams, stats), for a tree of the server.
InitWith(trees, paramset, statset) ==
    /\ tree \in trees
    /\ params \in paramset
    /\ stats \in statset
    /\ stage = "New"
    /\ ran = <<>>
    /\ pc = "returned"
    /\ levels = <<>>
    /\ nodes = <<>>
    /\ p_children = <<>>
    /\ new_children = <<>>
    /\ asked = <<>>
    /\ level = 0
    /\ prev_level = None
    /\ handles = <<>>
    /\ lookup = <<>>
    /\ joined = 0
    /\ faults = 0
    /\ output = None
    /\ task = Idle
    /\ retry = Idle
    /\ dist = Idle
    /\ count = Idle
    /\ merge = Idle
    /\ cache = Idle
    /\ problem = Idle
    /\ limited = Idle
    /\ shared = Idle
    /\ pmerge = Idle

Init == InitWith(TreeInputs(PipeNodes), ParamInputs, {Some(TreeAlgoStats)})

Next ==
    \/ PrepareBegin
    \/ PrepareLevel
    \/ PrepareChild
    \/ PrepareNext
    \/ PrepareEnd
    \/ TreeCompleteBegin
    \/ SpawnLevel
    \/ \E l \in DOMAIN handles : \E i \in DOMAIN handles[l] : TaskMerge(l, i)
    \/ \E l \in DOMAIN handles : \E i \in DOMAIN handles[l] : TaskQuery(l, i)
    \/ Join
    \/ EndLevel
    \/ TreeCompleteEnd
    \/ Disassemble

\* The whole pipeline, for small trees.
Spec == Init /\ [][Next]_vars

\* prepare alone, for larger trees, with and without usages and statistics.
PrepareParamInputs == {HyperParams(1, 1, u, TRUE) : u \in BOOLEAN}

InitPrepare == InitWith(TreeInputs(MaxNodes), PrepareParamInputs, StatsInputs)

NextPrepare ==
    \/ PrepareBegin
    \/ PrepareLevel
    \/ PrepareChild
    \/ PrepareNext
    \/ PrepareEnd

SpecPrepare == InitPrepare /\ [][NextPrepare]_vars

\* The pipeline with queries of two candidates and a stop_at of two, in
\* which a node above the leaves comes to more than one prompt.
TwoCompsParamInputs == {HyperParams(2, 2, TRUE, TRUE)}

InitTwoComps ==
    InitWith({CodeBlockTree(par, "unique", 1) : par \in Shapes(PipeNodes)},
             TwoCompsParamInputs, {None})

SpecTwoComps == InitTwoComps /\ [][Next]_vars

\* ---------------------------------------------------- the parts on their own

\* The pipeline variables of a run that takes no pipeline step.
PipelineAtRest ==
    /\ tree \in TreeInputs(1)
    /\ stats = None
    /\ stage = "New"
    /\ ran = <<>>
    /\ pc = "returned"
    /\ levels = <<>>
    /\ nodes = <<>>
    /\ p_children = <<>>
    /\ new_children = <<>>
    /\ asked = <<>>
    /\ level = 0
    /\ prev_level = None
    /\ handles = <<>>
    /\ lookup = <<>>
    /\ joined = 0
    /\ faults = 0
    /\ output = None

\* One task of spawn_parallel_comp: a node at level lvl with k children,
\* child j (from one) having sizes[j] candidates.
TaskChild(j, size) ==
    CompNode(<<>>, <<"block", j>>, <<"code", j + 1>>,
             [i \in 1..size |-> <<"cand", j, i>>], <<>>)

TaskNode(k, lvl) ==
    CompNode([j \in 1..k |-> j - 1],
             IF lvl = 0 THEN <<"topnode", 1>> ELSE <<"block", 0>>,
             <<"code", 1>>, <<>>, <<>>)

\* The levels of the task: the root's, the one below, a deeper one.
TaskLevels == 0..2

TaskInputs ==
    {Task(TaskNode(Len(sizes), lvl), lvl,
          IF sizes = <<>> THEN None
          ELSE Some([j \in DOMAIN sizes |-> TaskChild(j, sizes[j])])) :
       sizes \in UNION {[1..k -> 0..MaxCands] : k \in 0..MaxKids},
       lvl \in TaskLevels}

TaskParamInputs ==
    {HyperParams(s, c, FALSE, TRUE) : s \in 0..MaxTaskStopAt, c \in 1..MaxTaskComps}

InitTask ==
    /\ PipelineAtRest
    /\ params \in TaskParamInputs
    /\ task \in TaskInputs
    /\ retry = Idle
    /\ dist = Idle
    /\ count = Idle
    /\ merge = Idle
    /\ cache = Idle
    /\ problem = Idle
    /\ limited = Idle
    /\ shared = Idle
    /\ pmerge = Idle

TaskRunMerge ==
    /\ task.st = "spawned"
    /\ \E o \in TaskMergeSteps(task, MaxFaults - faults) :
         /\ task' = o.task
         /\ faults' = faults + o.used
    /\ UNCHANGED <<pipeVars, params, retry, dist, count, merge, cache, moreVars>>

TaskRunQuery ==
    /\ task.st = "querying"
    /\ \E o \in TaskQuerySteps(task, MaxFaults - faults) :
         /\ task' = o.task
         /\ faults' = faults + o.used
    /\ UNCHANGED <<pipeVars, params, retry, dist, count, merge, cache, moreVars>>

NextTask ==
    \/ TaskRunMerge
    \/ TaskRunQuery

SpecTask == InitTask /\ [][NextTask]_vars

\* The merges of one node's children (spawn_parallel_comp), child by
\* child; trail is history: what each merge was handed and what it left.
MergeInputs ==
    {[at |-> "called", node |-> t.node, level |-> t.level,
      prev_level |-> t.prev_level] : t \in TaskInputs}

\* One initial prompt, stop_at = 10, children of two candidates each.
MergeExampleInputs ==
    {[at |-> "called", node |-> TaskNode(k, lvl), level |-> lvl,
      prev_level |-> Some([j \in 1..k |-> TaskChild(j, 2)])] :
        k \in 1..MaxKids, lvl \in 0..1}

\* A node whose children are some of the nodes of the level below, which
\* has one node more than a node has children at most; children_idxs is
\* ascending, as prepare leaves it.
Ascending(max, len) ==
    {idxs \in [1..len -> 0..max] : \A a, b \in 1..len : a < b => idxs[a] < idxs[b]}

MergeSharedLevelInputs ==
    {[at |-> "called",
      node |-> [TaskNode(Len(idxs), lvl) EXCEPT !.children_idxs = idxs],
      level |-> lvl,
      prev_level |-> Some([j \in 1..(MaxKids + 1) |-> TaskChild(j, sizes[j])])] :
        idxs \in UNION {Ascending(MaxKids, len) : len \in 1..MaxKids},
        sizes \in [1..(MaxKids + 1) -> 1..2],
        lvl \in 0..1}

InitMerge ==
    /\ PipelineAtRest
    /\ \/ params \in TaskParamInputs /\ merge \in MergeInputs
       \/ params \in TaskParamInputs /\ merge \in MergeSharedLevelInputs
       \/ params = HyperParams(10, 1, FALSE, TRUE) /\ merge \in MergeExampleInputs
    /\ task = Idle
    /\ retry = Idle
    /\ dist = Idle
    /\ count = Idle
    /\ cache = Idle
    /\ problem = Idle
    /\ limited = Idle
    /\ shared = Idle
    /\ pmerge = Idle

\* `HashSet::from([node.code.clone()])`, and for a node with children
\* level_below and stop_at_dist.
MergeBegin ==
    /\ merge.at = "called"
    /\ LET num_children == Len(merge.node.children_idxs)
           began == [at |-> "for", node |-> merge.node, level |-> merge.level,
                     prev_level |-> merge.prev_level,
                     prompts_set |-> {merge.node.code}, trail |-> <<>>]
       IN merge' =
            IF merge.node.children_idxs = <<>>
            THEN began @@ [stop_at_dist |-> <<>>, done |-> TRUE]
            ELSE IF merge.prev_level.tag = "None"
            THEN [began EXCEPT !.at = "panicked"]
                   @@ [stop_at_dist |-> <<>>, done |-> FALSE]
            ELSE began @@
                 [stop_at_dist |->
                    distribute_stop_at(EffectiveStopAt(params.stop_at, num_children),
                                       num_children),
                  done |-> FALSE]
    /\ UNCHANGED <<pipeVars, params, faults, task, retry, dist, count, cache, moreVars>>

\* One pass of `for (child_idx, upper) in ..zip(stop_at_dist)`: the child
\* is looked up and merged one way or the other; a weave that fails is a
\* panic.
MergeNext ==
    /\ merge.at = "for"
    /\ ~merge.done
    /\ Len(merge.trail) < Len(merge.node.children_idxs)
    /\ LET j == Len(merge.trail) + 1
           child_idx == ChildIdxOf(merge.node, j)
           upper == merge.stop_at_dist[j]
           level_below == merge.prev_level.val
       IN IF child_idx >= Len(level_below)
          THEN /\ merge' = [merge EXCEPT !.at = "panicked"]
               /\ UNCHANGED faults
          ELSE LET child == level_below[child_idx + 1]
                   poisson == UsePoisson(child, upper, merge.prompts_set)
               IN \/ /\ \E ps \in MergeChild(child, merge.level, upper,
                                              merge.prompts_set) :
                          merge' = [merge EXCEPT
                                      !.prompts_set = ps,
                                      !.trail = Append(@,
                                          [poisson |-> poisson, child |-> child,
                                           upper |-> upper,
                                           before |-> merge.prompts_set,
                                           after |-> ps])]
                     /\ UNCHANGED faults
                  \/ /\ MergeWeaves(child, upper, merge.prompts_set)
                     /\ faults < MaxFaults
                     /\ merge' = [merge EXCEPT !.at = "panicked"]
                     /\ faults' = faults + 1
    /\ UNCHANGED <<pipeVars, params, task, retry, dist, count, cache, moreVars>>

\* The for loop is through: the prompts are collected.
MergeEnd ==
    /\ merge.at = "for"
    /\ merge.done \/ Len(merge.trail) = Len(merge.node.children_idxs)
    /\ merge' = [merge EXCEPT !.at = "merged"]
    /\ UNCHANGED <<pipeVars, params, faults, task, retry, dist, count, cache, moreVars>>

NextMerge ==
    \/ MergeBegin
    \/ MergeNext
    \/ MergeEnd

SpecMerge == InitMerge /\ [][NextMerge]_vars

\* One call of retry_query_until_ok, the engine answering each call as it
\* likes.
RetryParamInputs == {HyperParams(1, n, FALSE, TRUE) : n \in 1..MaxRetryComps}

InitRetry ==
    /\ PipelineAtRest
    /\ params \in RetryParamInputs
    /\ retry = [at |-> "called"]
    /\ task = Idle
    /\ dist = Idle
    /\ count = Idle
    /\ merge = Idle
    /\ cache = Idle
    /\ problem = Idle
    /\ limited = Idle
    /\ shared = Idle
    /\ pmerge = Idle

RetryQuery == CompletionQuery(pretty_print(<<"code", 1>>, "_hole_", params.types))

\* `let mut res = engine.complete(q.clone()).await; let mut retries = 0;`
RetryFirst ==
    /\ retry.at = "called"
    /\ \E answer \in EngineAnswers(RetryQuery) : retry' = RetryInit(answer)
    /\ UNCHANGED <<pipeVars, params, faults, task, dist, count, merge, cache, moreVars>>

\* One pass of the while loop, or the return after it.
RetryPass ==
    /\ retry.at = "while"
    /\ \E answer \in EngineAnswers(RetryQuery) : retry' = RetryIter(retry, answer)
    /\ UNCHANGED <<pipeVars, params, faults, task, dist, count, merge, cache, moreVars>>

NextRetry ==
    \/ RetryFirst
    \/ RetryPass

SpecRetry == InitRetry /\ [][NextRetry]_vars

\* One call of distribute_stop_at(n, k), k > 0.
InitDist ==
    /\ PipelineAtRest
    /\ params = HyperParams(1, 1, FALSE, TRUE)
    /\ dist \in {[at |-> "while", n |-> n, k |-> k,
                  st |-> [res |-> [j \in 1..k |-> 0], stop_at |-> n, i |-> 0]] :
                    n \in 0..MaxDistStopAt, k \in 1..MaxDistChildren}
    /\ task = Idle
    /\ retry = Idle
    /\ count = Idle
    /\ merge = Idle
    /\ cache = Idle
    /\ problem = Idle
    /\ limited = Idle
    /\ shared = Idle
    /\ pmerge = Idle

DistPass ==
    /\ dist.at = "while"
    /\ dist.st.stop_at > 0
    /\ dist' = [dist EXCEPT !.st = DistIter(@, dist.k)]
    /\ UNCHANGED <<pipeVars, params, faults, task, retry, count, merge, cache, moreVars>>

DistReturn ==
    /\ dist.at = "while"
    /\ ~(dist.st.stop_at > 0)
    /\ dist' = [dist EXCEPT !.at = "returned"]
    /\ UNCHANGED <<pipeVars, params, faults, task, retry, count, merge, cache, moreVars>>

NextDist ==
    \/ DistPass
    \/ DistReturn

\* The loop is sequential code: it goes on until it returns.
SpecDist == InitDist /\ [][NextDist]_vars /\ WF_vars(NextDist)

\* One call of count_all_possible_combs(child, curr_prompts).
InitCombs ==
    /\ PipelineAtRest
    /\ params = HyperParams(1, 1, FALSE, TRUE)
    /\ count \in {[at |-> "for", child |-> TaskChild(1, c), curr_prompts |-> p,
                   st |-> [res |-> 1, i |-> 0, ret |-> None], ret |-> None] :
                     c \in 0..MaxCombsLen, p \in 0..MaxCombsPrompts}
    /\ task = Idle
    /\ retry = Idle
    /\ dist = Idle
    /\ merge = Idle
    /\ cache = Idle
    /\ problem = Idle
    /\ limited = Idle
    /\ shared = Idle
    /\ pmerge = Idle

CombsPass ==
    /\ count.at = "for"
    /\ count.st.ret = None
    /\ count.st.i < count.curr_prompts
    /\ count' = [count EXCEPT !.st = CombsIter(@, Len(count.child.completed))]
    /\ UNCHANGED <<pipeVars, params, faults, task, retry, dist, merge, cache, moreVars>>

CombsReturn ==
    /\ count.at = "for"
    /\ count.st.ret # None \/ ~(count.st.i < count.curr_prompts)
    /\ count' = [count EXCEPT !.at = "returned",
                              !.ret = IF count.st.ret # None THEN count.st.ret
                                      ELSE Some(count.st.res)]
    /\ UNCHANGED <<pipeVars, params, faults, task, retry, dist, merge, cache, moreVars>>

NextCombs ==
    \/ CombsPass
    \/ CombsReturn

SpecCombs == InitCombs /\ [][NextCombs]_vars

\* --------------------------------------------------------------- the cache

\* A String is the sequence of its characters.  serde_json writes a
\* string between quotes, a quote and a backslash in it behind a backslash.
RECURSIVE Escape(_)
Escape(str) ==
    IF str = <<>> THEN <<>>
    ELSE (IF Head(str) \in {"\"", "\\"} THEN <<"\\", Head(str)>> ELSE <<Head(str)>>)
           \o Escape(Tail(str))

JsonString(str) == <<"\"">> \o Escape(str) \o <<"\"">>

\* serde_json writes a usize in decimal.
DigitChar == <<"0", "1", "2", "3", "4", "5", "6", "7", "8", "9">>

RECURSIVE JsonNumber(_)
JsonNumber(n) ==
    IF n < 10 THEN <<DigitChar[n + 1]>>
    ELSE JsonNumber(n \div 10) \o <<DigitChar[(n % 10) + 1]>>

\* The members of the object json!{...} of to_key, name and value written.
KeyMember(name, written) == JsonString(name) \o <<":">> \o written

RECURSIVE JoinWith(_, _)
JoinWith(parts, sep) ==
    IF parts = <<>> THEN <<>>
    ELSE IF Len(parts) = 1 THEN parts[1]
    ELSE parts[1] \o sep \o JoinWith(Tail(parts), sep)

\* A wrong to_key: the stop_at of the Cache is not part of the key.
to_key_of_query(self, query) ==
    LET members ==
          <<KeyMember(<<"n", "u", "m", "_", "c", "o", "m", "p", "s">>,
                      JsonNumber(query[2])),
            KeyMember(<<"q", "u", "e", "r", "y">>, JsonString(query[1])),
            KeyMember(<<"r", "e", "t", "r", "i", "e", "s">>, JsonNumber(query[3]))>>
    IN <<"{">> \o JoinWith(members, <<",">>) \o <<"}">>

\* Cache::to_key: the object's to_string().  serde_json writes the members
\* in the order of their names, or as they were inserted (the build's
\* preserve_order); self.order is which.
to_key(self, query) ==
    LET num_comps == KeyMember(<<"n", "u", "m", "_", "c", "o", "m", "p", "s">>,
                               JsonNumber(query[2]))
        text == KeyMember(<<"q", "u", "e", "r", "y">>, JsonString(query[1]))
        retries == KeyMember(<<"r", "e", "t", "r", "i", "e", "s">>,
                             JsonNumber(query[3]))
        stop_at == KeyMember(<<"s", "t", "o", "p", "_", "a", "t">>,
                             JsonNumber(self.stop_at))
        members == IF self.order = "sorted"
                   THEN <<num_comps, text, retries, stop_at>>
                   ELSE <<text, num_comps, retries, stop_at>>
    IN <<"{">> \o JoinWith(members, <<",">>) \o <<"}">>

\* serde_json::json!(result).to_string(): an array of strings.
to_value(result) ==
    <<"[">> \o JoinWith([i \in DOMAIN result |-> JsonString(result[i])], <<",">>)
          \o <<"]">>

\* serde_json::from_str::<Vec<String>>: None for what is no array of
\* strings.  ParseString reads a string from behind its opening quote.
RECURSIVE ParseString(_, _, _)
ParseString(str, i, acc) ==
    IF i > Len(str) THEN None
    ELSE IF str[i] = "\"" THEN Some([val |-> acc, next |-> i + 1])
    ELSE IF str[i] = "\\"
         THEN IF i + 1 > Len(str) THEN None
              ELSE ParseString(str, i + 2, Append(acc, str[i + 1]))
    ELSE ParseString(str, i + 1, Append(acc, str[i]))

RECURSIVE ParseElements(_, _, _)
ParseElements(str, i, acc) ==
    IF i > Len(str) \/ str[i] # "\"" THEN None
    ELSE LET elem == ParseString(str, i + 1, <<>>)
         IN IF elem = None \/ elem.val.next > Len(str) THEN None
            ELSE IF str[elem.val.next] = ","
                 THEN ParseElements(str, elem.val.next + 1, Append(acc, elem.val.val))
            ELSE IF str[elem.val.next] = "]" /\ elem.val.next = Len(str)
                 THEN Some(Append(acc, elem.val.val))
            ELSE None

from_str(str) ==
    IF str = <<"[", "]">> THEN Some(<<>>)
    ELSE IF Len(str) >= 2 /\ str[1] = "[" THEN ParseElements(str, 2, <<>>)
    ELSE None

\* redis GET and SET on the store, a function from keys to values.
RedisGet(redis, key) == IF key \in DOMAIN redis THEN Some(redis[key]) ELSE None

RedisSet(redis, key, value) ==
    [k \in DOMAIN redis \cup {key} |-> IF k = key THEN value ELSE redis[k]]

\* A wrong store: a key that is set is left as it is.
store_if_absent(self, redis, query, result) ==
    IF to_key(self, query) \in DOMAIN redis THEN redis
    ELSE RedisSet(redis, to_key(self, query), to_value(result))

\* Cache::store: the store after it (the SET answered).
store(self, redis, query, result) ==
    RedisSet(redis, to_key(self, query), to_value(result))

\* Cache::retrieve: Ok(Option<Vec<String>>) (the GET answered); the unwrap
\* of a value that does not parse is a panic.
retrieve(self, redis, query) ==
    LET result == RedisGet(redis, to_key(self, query))
    IN IF result = None THEN Ok(None)
       ELSE IF from_str(result.val) = None THEN [tag |-> "panic"]
       ELSE Ok(Some(from_str(result.val).val))

\* The queries (input, num_comps, retries), the stop_at of the Cache
\* values and the results the operations are called with.
CacheQueries ==
    {<<<<"a", "b", "c">>, 5, 2>>, <<<<"a", "b", "c">>, 5, 3>>,
     <<<<"a", "b", "c">>, 12, 2>>, <<<<"a", "\"", ",", "\\">>, 5, 2>>}

CacheStopAts == {1, 10}

\* The calls: the Cache value's stop_at and the query; the tuples differ
\* from that of ("abc", 5, 2) with stop_at 10 in one of the four.
CacheCalls ==
    {call \in CacheStopAts \X CacheQueries :
        call[1] = 10 \/ call[2] = <<<<"a", "b", "c">>, 5, 2>>}

CacheResults == {<<>>, <<<<"x">>, <<"y">>>>, <<<<"\"", "]">>, <<>>, <<"\\", ",">>>>}

\* Cache values on one store; stored is history: per (input, num_comps,
\* retries, stop_at) the result of the last store that returned Ok; last
\* is the last operation, its key, the store before it and what it returned.
InitCache ==
    /\ PipelineAtRest
    /\ params = HyperParams(1, 1, FALSE, TRUE)
    /\ cache \in {[redis |-> <<>>, order |-> o, stored |-> <<>>, ops |-> 0,
                   last |-> [op |-> "new"]] : o \in {"sorted", "inserted"}}
    /\ task = Idle
    /\ retry = Idle
    /\ dist = Idle
    /\ count = Idle
    /\ merge = Idle
    /\ problem = Idle
    /\ limited = Idle
    /\ shared = Idle
    /\ pmerge = Idle

CacheSelf(stop_at) == [stop_at |-> stop_at, order |-> cache.order]

CacheStore ==
    /\ cache.ops < MaxCacheOps
    /\ \E call \in CacheCalls, result \in CacheResults :
         LET stop_at == call[1]
             query == call[2]
             tuple == <<query[1], query[2], query[3], stop_at>>
             op == [op |-> "store", tuple |-> tuple, result |-> result,
                    key |-> to_key(CacheSelf(stop_at), query),
                    before |-> cache.redis]
         IN \/ /\ cache' = [cache EXCEPT
                               !.redis = store(CacheSelf(stop_at), @, query, result),
                               !.stored = MapInsert(@, tuple, result),
                               !.ops = @ + 1,
                               !.last = op @@ [ret |-> Ok(<<>>)]]
               /\ UNCHANGED faults
            \/ /\ faults < MaxFaults
               /\ cache' = [cache EXCEPT !.ops = @ + 1,
                                         !.last = op @@ [ret |-> Err("redis")]]
               /\ faults' = faults + 1
    /\ UNCHANGED <<pipeVars, params, task, retry, dist, count, merge, moreVars>>

CacheRetrieve ==
    /\ cache.last.op # "retrieve"
    /\ \E call \in CacheCalls :
         LET stop_at == call[1]
             query == call[2]
             tuple == <<query[1], query[2], query[3], stop_at>>
             op == [op |-> "retrieve", tuple |-> tuple,
                    key |-> to_key(CacheSelf(stop_at), query),
                    before |-> cache.redis]
         IN \/ /\ cache' = [cache EXCEPT
                               !.last = op @@ [ret |-> retrieve(CacheSelf(stop_at),
                                                                cache.redis, query)]]
               /\ UNCHANGED faults
            \/ /\ faults < MaxFaults
               /\ cache' = [cache EXCEPT !.last = op @@ [ret |-> Err("redis")]]
               /\ faults' = faults + 1
    /\ UNCHANGED <<pipeVars, params, task, retry, dist, count, merge, moreVars>>

NextCache ==
    \/ CacheStore
    \/ CacheRetrieve

SpecCache == InitCache /\ [][NextCache]_vars

\* ------------------------------------------------------------ CheckProblem

\* enum CheckProblem, and the names of its variants as strings.
CheckProblem == {"NotComplete", "ChangedCode", "ChangedComments"}

VariantName(v) ==
    CASE v = "NotComplete" ->
           <<"N", "o", "t", "C", "o", "m", "p", "l", "e", "t", "e">>
      [] v = "ChangedCode" ->
           <<"C", "h", "a", "n", "g", "e", "d", "C", "o", "d", "e">>
      [] v = "ChangedComments" ->
           <<"C", "h", "a", "n", "g", "e", "d", "C", "o", "m", "m", "e", "n", "t", "s">>

\* s.trim_start()
RECURSIVE TrimStart(_)
TrimStart(str) ==
    IF str # <<>> /\ Head(str) = " " THEN TrimStart(Tail(str)) ELSE str

\* A wrong deserialize: blanks before the tag are passed over.
deserialize_trimmed(value) ==
    IF value = None THEN Err("not a string")
    ELSE LET str == TrimStart(value.val)
         IN IF str = <<"N", "o", "t", "C", "o", "m", "p", "l", "e", "t", "e">>
            THEN Ok("NotComplete")
            ELSE IF str = <<"C", "h", "a", "n", "g", "e", "d", "C", "o", "d", "e">>
            THEN Ok("ChangedCode")
            ELSE IF str = <<"C", "h", "a", "n", "g", "e", "d",
                            "C", "o", "m", "m", "e", "n", "t", "s">>
            THEN Ok("ChangedComments")
            ELSE Err(<<"invalid CheckProblem", str>>)

\* CheckProblem::deserialize of a value that is a string (Some of its
\* characters) or is none: String::deserialize(..)? and the match.
deserialize(value) ==
    IF value = None THEN Err("not a string")
    ELSE LET str == value.val
         IN IF str = <<"N", "o", "t", "C", "o", "m", "p", "l", "e", "t", "e">>
            THEN Ok("NotComplete")
            ELSE IF str = <<"C", "h", "a", "n", "g", "e", "d", "C", "o", "d", "e">>
            THEN Ok("ChangedCode")
            ELSE IF str = <<"C", "h", "a", "n", "g", "e", "d",
                            "C", "o", "m", "m", "e", "n", "t", "s">>
            THEN Ok("ChangedComments")
            ELSE Err(<<"invalid CheckProblem", str>>)

\* The strings handed to deserialize: the tags, and each of them cut by
\* its last character, with a character more, behind a blank, and with a
\* small first letter; the empty string.
LowerFirst(str) ==
    [str EXCEPT ![1] = IF @ = "N" THEN "n" ELSE IF @ = "C" THEN "c" ELSE @]

ProblemStrings ==
    LET tags == {VariantName(v) : v \in CheckProblem}
    IN tags \cup {SubSeq(tag, 1, Len(tag) - 1) : tag \in tags}
            \cup {Append(tag, "s") : tag \in tags}
            \cup {<<" ">> \o tag : tag \in tags}
            \cup {LowerFirst(tag) : tag \in tags}
            \cup {<<>>}

ProblemInputs == {Some(str) : str \in ProblemStrings} \cup {None}

\* log is history: the values deserialized and what was returned.
InitProblem ==
    /\ PipelineAtRest
    /\ params = HyperParams(1, 1, FALSE, TRUE)
    /\ problem = [log |-> <<>>]
    /\ task = Idle
    /\ retry = Idle
    /\ dist = Idle
    /\ count = Idle
    /\ merge = Idle
    /\ cache = Idle
    /\ limited = Idle
    /\ shared = Idle
    /\ pmerge = Idle

ProblemDeserialize ==
    /\ Len(problem.log) < MaxProblemCalls
    /\ \E value \in ProblemInputs :
         problem' = [problem EXCEPT
                       !.log = Append(@, [value |-> value, ret |-> deserialize(value)])]
    /\ UNCHANGED <<pipeVars, params, faults, task, retry, dist, count, merge,
                   cache, limited, shared, pmerge>>

NextProblem == ProblemDeserialize

SpecProblem == InitProblem /\ [][NextProblem]_vars

\* ------------------------------------------------ the Poisson merge alone

\* `upper * 5` on usize: with overflow checks (a debug build) a product
\* beyond usize::MAX panics (None), without them it wraps around.
usize_mul(build, a, b) ==
    IF a * b <= USIZE_MAX THEN Some(a * b)
    ELSE IF build = "debug" THEN None
    ELSE Some((a * b) % (USIZE_MAX + 1))

\* `if idx >= all_combs.len() { idx = all_combs.len() - 1 }`
Clamped(idx, len) == IF idx >= len THEN len - 1 ELSE idx

\* The calls: prompts and candidates of the child, any budget up to
\* MaxPoissonUpper and the budgets from which upper * 5 is beyond usize.
PoissonUppers == (0..MaxPoissonUpper) \cup {(USIZE_MAX \div 5) + 1}

\* `pois.sample(&mut rng) as usize`: any number; here the first index, the
\* middle one and the first number that is no index.
PoissonSamples(len) == {0, len \div 2, len}

PoissonInputs ==
    {[at |-> "called", build |-> b, level |-> 1, upper |-> u,
      prompts_set |-> {<<"prompt", i>> : i \in 1..np},
      child |-> TaskChild(1, nc)] :
        b \in {"debug", "release"}, u \in PoissonUppers,
        np \in 0..MaxPoissonPrompts, nc \in 0..MaxPoissonCands}

InitPoisson ==
    /\ PipelineAtRest
    /\ params = HyperParams(1, 1, FALSE, TRUE)
    /\ pmerge \in PoissonInputs
    /\ task = Idle
    /\ retry = Idle
    /\ dist = Idle
    /\ count = Idle
    /\ merge = Idle
    /\ cache = Idle
    /\ problem = Idle
    /\ limited = Idle
    /\ shared = Idle

\* Up to the while loop: combs_upper and all_combs, the prompts in the
\* order the HashSet iterates them.  pick (the last pass), passes, weaves
\* and enumerated are history.
PoissonBegin ==
    /\ pmerge.at = "called"
    /\ LET combs_upper == usize_mul(pmerge.build, pmerge.upper, 5)
       IN IF combs_upper = None
          THEN pmerge' = [pmerge EXCEPT !.at = "panicked"]
          ELSE \E ps \in Orders(pmerge.prompts_set) :
                 LET combs == all_combs(ps, pmerge.child.completed, combs_upper)
                 IN pmerge' = [pmerge EXCEPT !.at = "while"] @@
                       [all_combs |-> combs, new_prompts |-> {},
                        enumerated |-> Len(combs), pick |-> None,
                        passes |-> 0, weaves |-> 0]
    /\ UNCHANGED <<pipeVars, params, faults, task, retry, dist, count, merge,
                   cache, problem, limited, shared>>

\* One pass of the while loop.  The language server may answer a weave
\* with a string it has answered before.
PoissonPass ==
    /\ pmerge.at = "while"
    /\ Cardinality(pmerge.new_prompts) < pmerge.upper
    /\ pmerge.all_combs # <<>>
    /\ \E sample \in PoissonSamples(Len(pmerge.all_combs)) :
         LET len == Len(pmerge.all_combs)
             idx == Clamped(sample, len)
             pair == pmerge.all_combs[idx + 1]
             woven == weave(pair[1], pair[2], NettleLevel(pmerge.level))
         IN \E comp \in {woven} \cup pmerge.new_prompts :
              pmerge' = [pmerge EXCEPT
                            !.all_combs = RemoveAt(@, idx),
                            !.new_prompts = @ \cup {comp},
                            !.weaves = @ + 1,
                            !.passes = @ + 1,
                            !.pick = Some([sample |-> sample, idx |-> idx,
                                           len |-> len])]
    /\ UNCHANGED <<pipeVars, params, faults, task, retry, dist, count, merge,
                   cache, problem, limited, shared>>

\* `*prompts_set = new_prompts`
PoissonReturn ==
    /\ pmerge.at = "while"
    /\ ~(Cardinality(pmerge.new_prompts) < pmerge.upper /\ pmerge.all_combs # <<>>)
    /\ pmerge' = [pmerge EXCEPT !.at = "returned"] @@ [ret |-> pmerge.new_prompts]
    /\ UNCHANGED <<pipeVars, params, faults, task, retry, dist, count, merge,
                   cache, problem, limited, shared>>

NextPoisson ==
    \/ PoissonBegin
    \/ PoissonPass
    \/ PoissonReturn

SpecPoisson == InitPoisson /\ [][NextPoisson]_vars

\* ------------------------------------------------------ depth_limit alone

\* A wrong depth_limit: the children are kept as they are below the top.
depth_limit_top(self, depth) ==
    IF depth = 0 THEN [self EXCEPT !.children = <<>>] ELSE self

\* CodeBlockTree::depth_limit: the tree it leaves in self.
RECURSIVE depth_limit(_, _)
depth_limit(self, depth) ==
    IF depth = 0 THEN [self EXCEPT !.children = <<>>]
    ELSE [self EXCEPT !.children =
             [j \in DOMAIN self.children |-> depth_limit(self.children[j], depth - 1)]]

\* The calls: a tree and a depth.  before (the tree as it was) and first
\* (the tree after the first call) are history.
LimitInputs ==
    {[at |-> "built", tree |-> tr, depth |-> d, calls |-> 0,
      before |-> tr, first |-> None] :
        tr \in TreeInputs(LimitNodes), d \in 0..MaxDepth}

InitLimit ==
    /\ PipelineAtRest
    /\ params = HyperParams(1, 1, FALSE, TRUE)
    /\ limited \in LimitInputs
    /\ task = Idle
    /\ retry = Idle
    /\ dist = Idle
    /\ count = Idle
    /\ merge = Idle
    /\ cache = Idle
    /\ problem = Idle
    /\ shared = Idle
    /\ pmerge = Idle

\* tree.depth_limit(depth), once more with the same depth.
DepthLimit ==
    /\ limited.at \in {"built", "limited"}
    /\ limited.calls < MaxLimitCalls
    /\ LET after == depth_limit(limited.tree, limited.depth)
       IN limited' = [limited EXCEPT
                        !.at = "limited",
                        !.tree = after,
                        !.calls = @ + 1,
                        !.first = IF limited.calls = 0 THEN Some(after) ELSE @]
    /\ UNCHANGED <<pipeVars, params, faults, task, retry, dist, count, merge,
                   cache, problem, shared, pmerge>>

NextLimit == DepthLimit

SpecLimit == InitLimit /\ [][NextLimit]_vars

\* --------------------------------------- pipelines on one statistics sink

\* A wrong LockFree: the lock is given to whoever asks.
LockAlwaysFree(holder) == TRUE

\* `stats.lock().await` returns when no other guard is alive.
LockFree(holder) == holder = 0

\* prepare as a function of its locals, for a pipeline among others.  The
\* loop control up to the next child or to the end of the while loop.
RECURSIVE PipeAdvance(_)
PipeAdvance(st) ==
    IF st.p_children # <<>>
    THEN IF Head(st.p_children)[2] # <<>> THEN st
         ELSE PipeAdvance([st EXCEPT !.p_children = Tail(@)])
    ELSE IF st.nodes = <<>> THEN [st EXCEPT !.at = "prepared", !.prepared = st.levels]
    ELSE PipeAdvance([st EXCEPT !.levels = Append(@, st.nodes),
                                !.nodes = <<>>,
                                !.p_children = st.new_children,
                                !.new_children = <<>>])

\* The locals at the start of prepare, the root being pushed as level 0
\* by the first pass of the while loop.
PipeBegin(st) ==
    PipeAdvance([st EXCEPT !.at = "prepare",
                           !.levels = <<>>,
                           !.nodes = <<CompNode(<<>>, st.tree.name, st.tree.code,
                                                <<>>, <<>>)>>,
                           !.p_children = <<>>,
                           !.new_children = <<<<0, st.tree.children>>>>])

\* The body of `for child in children` but the update of the statistics
\* (no usages are asked for here).
PipeVisit(st) ==
    LET p_idx == Head(st.p_children)[1]
        child == Head(Head(st.p_children)[2])
        idx == Len(st.nodes)
        lvl == Len(st.levels)
    IN PipeAdvance([st EXCEPT
          !.levels[lvl][p_idx + 1].children_idxs = Append(@, idx),
          !.nodes = Append(@, CompNode(<<>>, child.name, child.code, <<>>, <<>>)),
          !.new_children = Append(@, <<idx, child.children>>),
          !.p_children[1][2] = Tail(@),
          !.counted = @ + 1])

\* The engine answers every query at once with num_comps completions and
\* every weave is answered: the task of a node to its end.
RECURSIVE AnsweredAtOnce(_)
AnsweredAtOnce(t) ==
    IF t.st # "querying" THEN t
    ELSE AnsweredAtOnce(
            Queried(t, Some(Completions(QueryFor(t.node, Head(t.prompts)),
                                        params.num_comps)), {}))

\* What the task of node i of level l - 1 returns: (name, comps).
PipeResults(st, l, i) ==
    LET prev == IF l = Len(st.levels) THEN None ELSE Some(st.levels[l + 1])
    IN {AnsweredAtOnce(o.task).result.val :
          o \in TaskMergeSteps(Task(st.levels[l][i], l - 1, prev), 0)}

\* One pass of the join loop of tree_complete but the update of the
\* statistics, and the step to the next node, level or the end.
PipeJoin(st, result) ==
    LET l == st.l
        idx == Lookup(st.levels[l])[result[1]]
        u == [st EXCEPT !.levels[l][idx + 1].completed = result[2]]
    IN IF st.i < Len(st.levels[l]) THEN [u EXCEPT !.i = @ + 1]
       ELSE IF l > 1 THEN [u EXCEPT !.l = l - 1, !.i = 1]
       ELSE [u EXCEPT !.at = "completed"]

\* The pipeline is at an update of the statistics: increase_node_count
\* in prepare, insert_num_comps in tree_complete.
PipeUpdates(st) == st.at \in {"prepare", "complete"}

\* The statistics after the update, from those seen under the lock.
PipeModified(st, seen, result) ==
    IF st.at = "prepare" THEN IncNodes(seen)
    ELSE [seen EXCEPT !.num_comps_per_node =
                         MapInsert(@, result[1], Len(result[2]))]

PipeStep(st, result) ==
    IF st.at = "prepare" THEN PipeVisit(st) ELSE PipeJoin(st, result)

PipeResultsAt(st) ==
    IF st.at = "complete" THEN PipeResults(st, st.l, st.i) ELSE {<<>>}

\* The pipelines: each with a tree, with the sink or with no statistics.
\* counted (children visited) and prepared (the levels prepare returned)
\* are history.
SharedInputs ==
    [1..SharedPipes ->
       {[at |-> "new", tree |-> CodeBlockTree(par, "unique", 1), sink |-> b,
         held |-> FALSE, seen |-> None, levels |-> <<>>, nodes |-> <<>>,
         p_children |-> <<>>, new_children |-> <<>>, l |-> 0, i |-> 0,
         counted |-> 0, prepared |-> <<>>, output |-> None] :
          par \in Shapes(SharedNodes), b \in BOOLEAN}]

InitShared ==
    /\ PipelineAtRest
    /\ params = HyperParams(1, 1, FALSE, TRUE)
    /\ shared \in {[at |-> "run", pipes |-> ps, sink |-> TreeAlgoStats,
                    holder |-> 0] :
                      ps \in SharedInputs}
    /\ task = Idle
    /\ retry = Idle
    /\ dist = Idle
    /\ count = Idle
    /\ merge = Idle
    /\ cache = Idle
    /\ problem = Idle
    /\ limited = Idle
    /\ pmerge = Idle

SharedUnchanged ==
    UNCHANGED <<pipeVars, params, faults, task, retry, dist, count, merge,
                cache, problem, limited, pmerge>>

\* prepare is called: up to the first child.
SharedPrepare(p) ==
    /\ shared.pipes[p].at = "new"
    /\ shared' = [shared EXCEPT !.pipes[p] = PipeBegin(@)]
    /\ SharedUnchanged

\* if_some_modify with Some: the lock is taken.
SharedLock(p) ==
    /\ PipeUpdates(shared.pipes[p])
    /\ shared.pipes[p].sink
    /\ ~shared.pipes[p].held
    /\ LockFree(shared.holder)
    /\ shared' = [shared EXCEPT !.holder = p,
                                !.pipes[p].held = TRUE,
                                !.pipes[p].seen = Some(shared.sink)]
    /\ SharedUnchanged

\* f(&mut stats), the guard is dropped, and the pipeline goes on.
SharedModify(p) ==
    /\ shared.pipes[p].held
    /\ \E result \in PipeResultsAt(shared.pipes[p]) :
         shared' = [shared EXCEPT
            !.sink = PipeModified(shared.pipes[p], shared.pipes[p].seen.val, result),
            !.holder = IF @ = p THEN 0 ELSE @,
            !.pipes[p] = [PipeStep(@, result) EXCEPT !.held = FALSE, !.seen = None]]
    /\ SharedUnchanged

\* if_some_modify with None: nothing is updated, and the pipeline goes on.
SharedSkip(p) ==
    /\ PipeUpdates(shared.pipes[p])
    /\ ~shared.pipes[p].sink
    /\ \E result \in PipeResultsAt(shared.pipes[p]) :
         shared' = [shared EXCEPT !.pipes[p] = PipeStep(@, result)]
    /\ SharedUnchanged

\* tree_complete is called: the deepest level first.
SharedTreeComplete(p) ==
    /\ shared.pipes[p].at = "prepared"
    /\ shared' = [shared EXCEPT !.pipes[p].at = "complete",
                                !.pipes[p].l = Len(shared.pipes[p].levels),
                                !.pipes[p].i = 1]
    /\ SharedUnchanged

\* disassemble
SharedDisassemble(p) ==
    /\ shared.pipes[p].at = "completed"
    /\ shared' = [shared EXCEPT
                     !.pipes[p].at = "disassembled",
                     !.pipes[p].output = Some(RootCompleted(shared.pipes[p].levels))]
    /\ SharedUnchanged

NextShared ==
    \E p \in 1..SharedPipes :
       \/ SharedPrepare(p)
       \/ SharedLock(p)
       \/ SharedModify(p)
       \/ SharedSkip(p)
       \/ SharedTreeComplete(p)
       \/ SharedDisassemble(p)

SpecShared == InitShared /\ [][NextShared]_vars

\* ------------------------------------------------------------------ claims

\* The histories of stage operations a pipeline value can have.
StageOrder == <<"prepare", "tree_complete", "disassemble">>

Histories ==
    {SubSeq(StageOrder, 1, n) : n \in 0..3}
    \cup {<<"prepare", "Err">>, <<"prepare", "tree_complete", "panic">>}

\* C1: the stage operations of one pipeline run in the order prepare,
\* tree_complete, disassemble, each at most once and each on the value the
\* stage before returned; after a failed prepare (or an aborted
\* tree_complete) no further stage runs.
C1_StageOrder ==
    /\ ran \in Histories
    /\ stage = "New" <=> ran = <<>>
    /\ stage \in {"Preparing", "Prepared"} <=> ran = <<"prepare">>
    /\ stage = "PrepareFailed" <=> ran = <<"prepare", "Err">>
    /\ stage \in {"Completing", "Completed"} <=> ran = <<"prepare", "tree_complete">>
    /\ stage = "Aborted" <=> ran = <<"prepare", "tree_complete", "panic">>
    /\ stage = "Disassembled" <=> ran = StageOrder

C1_Witness ==
    /\ stage = "Disassembled"
    /\ ran = StageOrder
    /\ output.tag = "Some"

\* C2: a level's tasks exist only when every task of every deeper level has
\* finished and has been joined (its result assigned to its level): the
\* levels are taken from the deepest to level 0, one after the other.
C2_LevelBarrier ==
    \A l \in DOMAIN handles :
        handles[l] # <<>> =>
            \A m \in DOMAIN handles :
                m > l => /\ handles[m] # <<>>
                         /\ \A i \in DOMAIN handles[m] : handles[m][i].st = "joined"

C2_Witness ==
    /\ Len(handles) >= 2
    /\ handles[1] # <<>>
    /\ Len(handles[2]) >= 2
    /\ handles[1][1].st = "spawned"

\* C3: while the pipeline is being completed, every task of a level above
\* the deepest holds as prev_level the nodes of the level below as that
\* level ended (all its tasks joined), its children_idxs are indices of it,
\* and the level below is not changed any more; a task of the deepest level
\* has no children.
C3_PrevLevelSnapshot ==
    stage \in {"Completing", "Completed"} =>
        \A l \in DOMAIN handles : \A i \in DOMAIN handles[l] :
            LET t == handles[l][i]
            IN IF l = Len(handles)
               THEN t.node.children_idxs = <<>>
               ELSE /\ t.prev_level = Some(levels[l + 1])
                    /\ \A j \in DOMAIN handles[l + 1] :
                          handles[l + 1][j].st = "joined"
                    /\ \A k \in DOMAIN t.node.children_idxs :
                          /\ t.node.children_idxs[k] >= 0
                          /\ t.node.children_idxs[k] < Len(t.prev_level.val)

C3_Witness ==
    /\ stage = "Completing"
    /\ Len(handles) >= 2
    /\ handles[1] # <<>>
    /\ handles[1][1].st = "finished"
    /\ Len(handles[1][1].node.children_idxs) >= 2
    /\ handles[1][1].prev_level.val[2].completed # <<>>

\* The subtrees at depth d of a tree, from left to right.
RECURSIVE Flatten(_)
Flatten(ss) == IF ss = <<>> THEN <<>> ELSE Head(ss) \o Flatten(Tail(ss))

RECURSIVE NodesAtDepth(_, _)
NodesAtDepth(t, d) ==
    IF d = 0
    THEN <<t>>
    ELSE LET above == NodesAtDepth(t, d - 1)
         IN Flatten([i \in DOMAIN above |-> above[i].children])

\* The number of children of the nodes before place i (from one) in ts.
KidsBefore(ts, i) == SeqSum([j \in 1..(i - 1) |-> Len(ts[j].children)])

\* C4: a prepare that succeeded leaves at least one level, no level is
\* empty, and every entry of a node's children_idxs is an index of the next
\* level (the nodes of the last level have none).
C4_LevelsWellFormed ==
    stage = "Prepared" =>
        /\ Len(levels) >= 1
        /\ \A l \in DOMAIN levels :
              /\ levels[l] # <<>>
              /\ \A n \in DOMAIN levels[l] :
                    \A k \in DOMAIN levels[l][n].children_idxs :
                        /\ l < Len(levels)
                        /\ levels[l][n].children_idxs[k] >= 0
                        /\ levels[l][n].children_idxs[k] < Len(levels[l + 1])

C4_Witness ==
    /\ stage = "Prepared"
    /\ Len(levels) >= 3
    /\ \E n \in DOMAIN levels[2] : Len(levels[2][n].children_idxs) >= 2

\* C5: a prepare that succeeded leaves the breadth-first levels of the
\* tree: level d holds the tree's nodes at depth d from left to right, each
\* with the name and code of its tree node and no completions, and a
\* node's children_idxs are the places of its tree children in level d+1,
\* in order; each node below the root is therefore the child of exactly
\* one node of the level above.
C5_LevelsAreBfs ==
    stage = "Prepared" =>
        /\ Len(levels) = TreeHeight(tree) + 1
        /\ \A l \in DOMAIN levels :
              LET ts == NodesAtDepth(tree, l - 1)
              IN /\ Len(levels[l]) = Len(ts)
                 /\ \A n \in DOMAIN ts :
                       /\ levels[l][n].name = ts[n].name
                       /\ levels[l][n].code = ts[n].code
                       /\ levels[l][n].completed = <<>>
                       /\ levels[l][n].children_idxs =
                            [k \in 1..Len(ts[n].children) |->
                                KidsBefore(ts, n) + k - 1]
        /\ \A l \in 2..Len(levels) : \A c \in 0..(Len(levels[l]) - 1) :
              Cardinality({<<n, k>> \in (DOMAIN levels[l - 1]) \X (1..Len(levels[l])) :
                              /\ k \in DOMAIN levels[l - 1][n].children_idxs
                              /\ levels[l - 1][n].children_idxs[k] = c}) = 1

C5_Witness ==
    /\ stage = "Prepared"
    /\ Len(levels) >= 3
    /\ Len(levels[2]) >= 2
    /\ levels[2][1].children_idxs # <<>>
    /\ levels[2][2].children_idxs # <<>>

\* C6 as the specification states it: one call of retry_query_until_ok
\* calls the engine at most 6 times.  The code calls it a seventh time
\* when the first six calls failed.
C6_AtMostSixCalls ==
    retry.at \in {"while", "returned"} => retry.calls <= 6

\* The loop of C6 as the code runs it: at most 7 calls, Some(result) at the
\* first call that succeeds, None when all 7 failed, the two kinds of error
\* alike.
C6_Witness ==
    /\ retry.at = "returned"
    /\ retry.ret = None
    /\ retry.calls = 7
    /\ \E i, j \in DOMAIN retry.trace :
          retry.trace[i] = "RateLimit" /\ retry.trace[j] = "Other"

\* C7: distribute_stop_at(n, k), k > 0, returns: the loop leaves
\* sum(res) + stop_at = n at every pass, and the vector returned has length
\* k, sums to n, has entries that differ by at most one and do not increase
\* with the index; it is what the pipeline's distribute_stop_at gives, and
\* (10,3) gives [4,3,3], (10,4) gives [3,3,2,2], (7,7) all ones, (0,3)
\* all zeros.
C7_Returned ==
    dist.at = "returned" =>
        LET res == dist.st.res
        IN /\ Len(res) = dist.k
           /\ SeqSum(res) = dist.n
           /\ \A i, j \in DOMAIN res :
                 /\ res[i] - res[j] <= 1
                 /\ i < j => res[i] >= res[j]
           /\ res = distribute_stop_at(dist.n, dist.k)
           /\ (dist.n = 10 /\ dist.k = 3) => res = <<4, 3, 3>>
           /\ (dist.n = 10 /\ dist.k = 4) => res = <<3, 3, 2, 2>>
           /\ (dist.n = 7 /\ dist.k = 7) => res = <<1, 1, 1, 1, 1, 1, 1>>
           /\ (dist.n = 0 /\ dist.k = 3) => res = <<0, 0, 0>>

C7_DistributeStopAt ==
    /\ [](SeqSum(dist.st.res) + dist.st.stop_at = dist.n)
    /\ []C7_Returned
    /\ <>(dist.at = "returned")

C7_Witness ==
    /\ dist.at = "returned"
    /\ dist.n = 10
    /\ dist.k = 4
    /\ dist.st.res = <<3, 3, 2, 2>>

\* a to the power b, b >= 0.
RECURSIVE Pow(_, _)
Pow(a, b) == IF b = 0 THEN 1 ELSE a * Pow(a, b - 1)

\* C8 as the code has it: count_all_possible_combs returns
\* |child.completed| to the power of the prompt count, or usize::MAX when
\* that is larger; with 3 prompts and 4 candidates it returns 64, and 81
\* with 4 prompts and 3 candidates.
C8_CombsIsLenPowPrompts ==
    count.at = "returned" =>
        LET len == Len(count.child.completed)
            prompts == count.curr_prompts
        IN /\ count.ret = Some(Min(Pow(len, prompts), USIZE_MAX))
           /\ count.ret = Some(count_all_possible_combs(count.child, prompts))
           /\ (prompts = 3 /\ len = 4) => count.ret = Some(64)
           /\ (prompts = 4 /\ len = 3) => count.ret = Some(81)

C8_Witness ==
    /\ count.at = "returned"
    /\ count.curr_prompts = 3
    /\ Len(count.child.completed) = 4
    /\ count.ret = Some(64)

\* C8 as the specification states it: the prompt count to the power of
\* |child.completed|, 81 for 3 prompts and 4 candidates.
C8_AsStated ==
    count.at = "returned" =>
        LET len == Len(count.child.completed)
            prompts == count.curr_prompts
        IN /\ count.ret = Some(Min(Pow(prompts, len), USIZE_MAX))
           /\ (prompts = 3 /\ len = 4) => count.ret = Some(81)

\* C9: count_all_possible_combs does not wrap around: res stays within
\* usize at every pass, and the value returned is the exact product when
\* no product of the passes exceeds usize::MAX and usize::MAX when one
\* does; it is 1 for a prompt count of 0, and 0 for a child without
\* candidates and a positive prompt count.
C9_CombsSaturates ==
    LET len == Len(count.child.completed)
        prompts == count.curr_prompts
        exceeds == \E j \in 1..prompts : Pow(len, j) > USIZE_MAX
    IN /\ count.st.res \in 0..USIZE_MAX
       /\ count.st.res = Pow(len, count.st.i)
       /\ count.at = "returned" =>
             /\ exceeds => count.ret = Some(USIZE_MAX)
             /\ ~exceeds => count.ret = Some(Pow(len, prompts))
             /\ prompts = 0 => count.ret = Some(1)
             /\ (len = 0 /\ prompts > 0) => count.ret = Some(0)

C9_Witness ==
    /\ count.at = "returned"
    /\ count.ret = Some(USIZE_MAX)
    /\ count.st.i < count.curr_prompts
    /\ Pow(Len(count.child.completed), count.curr_prompts) > USIZE_MAX + 1

\* C10: a task whose node has k >= 1 children has, after the merges, at
\* most max(stop_at, k) prompts, whatever the numbers of candidates of the
\* children and whichever way each was merged; the budgets handed to the
\* children are k numbers, each at least 1; above level 0 the task submits
\* at most max(stop_at, k) queries, and a leaf that finishes submitted one.
C10_PromptBound ==
    LET k == Len(task.node.children_idxs)
        bound == IF k >= 1 THEN Max(params.stop_at, k) ELSE 1
    IN /\ task.nprompts <= bound
       /\ task.queries + Len(task.prompts) <= bound
       /\ (k >= 1 /\ task.st \in {"querying", "finished"}) =>
             /\ Len(task.budgets) = k
             /\ \A j \in DOMAIN task.budgets : task.budgets[j] >= 1
       /\ (task.st = "finished" /\ task.level > 0) => task.queries = task.nprompts
       /\ (task.st = "finished" /\ task.level > 0 /\ k = 0) => task.queries = 1
       /\ task.level = 0 => task.queries = 0

C10_Witness ==
    /\ task.st = "finished"
    /\ task.level > 0
    /\ Len(task.node.children_idxs) >= 1
    /\ task.nprompts = Max(params.stop_at, Len(task.node.children_idxs))
    /\ task.nprompts >= 2
    /\ task.queries = task.nprompts
    /\ \E j \in DOMAIN task.budgets :
          Len(task.prev_level.val[j].completed) > task.budgets[j]

\* C11: the merge of a child is the all-combinations merge exactly when
\* count_all_possible_combs(child, |prompts|) <= upper, and then the new
\* prompt set is the set of weave(p, c) over all pairs of prompts and
\* child.completed; otherwise it is the Poisson merge, which leaves at
\* most upper of these weaves.  With one prompt, stop_at = 10 and two
\* children of two candidates each both merges are all-combinations and
\* the prompts left are the 4 weaves of a candidate of the second child
\* into the weave of a candidate of the first child into the node's code.
C11_MergeStrategy ==
    merge.at \in {"for", "merged"} =>
        LET lvl == Min(1, merge.level)
            Woven(ps, child) ==
                {weave(q, c, lvl) : q \in ps, c \in Range(child.completed)}
        IN /\ \A i \in DOMAIN merge.trail :
                LET e == merge.trail[i]
                    combs == Min(Pow(Len(e.child.completed), Cardinality(e.before)),
                                 USIZE_MAX)
                IN /\ e.poisson <=> combs > e.upper
                   /\ e.upper = merge.stop_at_dist[i]
                   /\ e.child = merge.prev_level.val[merge.node.children_idxs[i] + 1]
                   /\ e.before = (IF i = 1 THEN {merge.node.code}
                                  ELSE merge.trail[i - 1].after)
                   /\ ~e.poisson => e.after = Woven(e.before, e.child)
                   /\ e.poisson => /\ e.after \subseteq Woven(e.before, e.child)
                                   /\ Cardinality(e.after) <= e.upper
           /\ (/\ merge.at = "merged"
               /\ params.stop_at = 10
               /\ Len(merge.node.children_idxs) = 2
               /\ \A j \in 1..2 : Len(merge.prev_level.val[j].completed) = 2) =>
                 /\ \A i \in 1..2 : ~merge.trail[i].poisson
                 /\ Cardinality(merge.prompts_set) <= 4
                 /\ merge.prompts_set =
                      {weave(weave(merge.node.code, c1, lvl), c2, lvl) :
                         c1 \in Range(merge.prev_level.val[1].completed),
                         c2 \in Range(merge.prev_level.val[2].completed)}

C11_Witness ==
    /\ merge.at = "merged"
    /\ params.stop_at = 10
    /\ Len(merge.node.children_idxs) = 2
    /\ \A j \in 1..2 : Len(merge.prev_level.val[j].completed) = 2
    /\ Cardinality(merge.prompts_set) = 4
    /\ \A i \in 1..2 : ~merge.trail[i].poisson

\* The prompt sets the merges of a task's children can leave.
MergedSets(t) ==
    IF t.node.children_idxs = <<>> THEN {{t.node.code}}
    ELSE LET k == Len(t.node.children_idxs)
         IN {o.prompts_set :
               o \in MergeFrom(1, t.node, t.prev_level.val, t.level,
                               distribute_stop_at(Max(params.stop_at, k), k),
                               {t.node.code}, FALSE)}

\* C12: the task of a node of level 0 never queries: it calls neither the
\* engine nor stub nor pretty_print, and what it returns is a prompt set
\* its merges leave, as it is.  For a tree that is a single root without
\* children no task calls the engine or the language server, no call
\* fails, and after tree_complete the root's completed is [root.code].
C12_RootSkipsEngine ==
    /\ \A l \in DOMAIN handles : \A i \in DOMAIN handles[l] :
          LET t == handles[l][i]
          IN l = 1 =>
             /\ t.level = 0
             /\ t.st # "querying"
             /\ t.queries = 0
             /\ t.log = <<>>
             /\ t.called \subseteq {"weave"}
             /\ t.st \in {"finished", "joined"} =>
                   /\ t.result.val[1] = t.node.name
                   /\ Range(t.result.val[2]) \in MergedSets(t)
                   /\ Len(t.result.val[2]) = Cardinality(Range(t.result.val[2]))
    /\ tree.children = <<>> =>
          /\ faults = 0
          /\ stage # "Aborted"
          /\ \A l \in DOMAIN handles : \A i \in DOMAIN handles[l] :
                handles[l][i].called = {}
          /\ stage = "Completed" =>
                /\ Len(levels) = 1
                /\ Len(levels[1]) = 1
                /\ levels[1][1].completed = <<tree.code>>

C12_Witness ==
    /\ stage = "Completed"
    /\ Len(levels) >= 2
    /\ handles[1][1].st = "joined"
    /\ "weave" \in handles[1][1].called
    /\ Len(levels[1][1].completed) >= 1
    /\ \E i \in DOMAIN handles[2] : "complete" \in handles[2][i].called

\* C13: a pipeline that is Completed has a level 0 with a node 0, whose
\* completed is what the root's task returned; disassemble does not fail
\* and returns exactly that list, nothing added, removed or reordered.
C13_DisassembleReturnsRoot ==
    /\ stage = "Completed" =>
          /\ Len(levels) >= 1
          /\ Len(levels[1]) = 1
          /\ Len(handles[1]) = 1
          /\ handles[1][1].st = "joined"
          /\ levels[1][1].completed = handles[1][1].result.val[2]
    /\ stage = "Disassembled" =>
          /\ output = Some(handles[1][1].result.val[2])
          /\ levels[1] = <<>>
    /\ output # None => stage = "Disassembled"

C13_Witness ==
    /\ stage = "Disassembled"
    /\ output.tag = "Some"
    /\ Len(output.val) >= 1
    /\ output.val[1][1] = "weave"

\* The tuple a call is about, the Cache value making it, and what the
\* history holds for a tuple.
CallTuple(call) == <<call[2][1], call[2][2], call[2][3], call[1]>>

CallKey(call) == to_key(CacheSelf(call[1]), call[2])

LastStored(tuple) ==
    IF tuple \in DOMAIN cache.stored THEN Some(cache.stored[tuple]) ELSE None

\* C14: in every state of the store, retrieve of any (input, num_comps,
\* retries) by a Cache of any stop_at returns Ok(Some(r)) for the r of the
\* last store under that tuple, however often the tuple was stored, and
\* Ok(None) when there was none; a retrieve leaves the store as it was, and
\* returns an error only when redis failed.
C14_RetrieveLatest ==
    /\ \A call \in CacheCalls :
          retrieve(CacheSelf(call[1]), cache.redis, call[2])
             = Ok(LastStored(CallTuple(call)))
    /\ cache.last.op = "retrieve" =>
          /\ cache.redis = cache.last.before
          /\ cache.last.ret.tag \in {"Ok", "Err"}
          /\ cache.last.ret.tag = "Ok" =>
                cache.last.ret.val = LastStored(cache.last.tuple)
          /\ cache.last.ret.tag = "Err" => faults > 0
    /\ (cache.last.op = "store" /\ cache.last.ret.tag = "Ok") =>
          LastStored(cache.last.tuple) = Some(cache.last.result)

\* A store over an earlier, different value of the same tuple.
C14_Witness ==
    /\ cache.last.op = "store"
    /\ cache.last.ret.tag = "Ok"
    /\ \E call \in CacheCalls :
          /\ CallTuple(call) = cache.last.tuple
          /\ CallKey(call) \in DOMAIN cache.last.before
          /\ cache.last.before[CallKey(call)] # cache.redis[CallKey(call)]
          /\ from_str(cache.redis[CallKey(call)]) = Some(cache.last.result)

\* C15: two calls have the same key exactly when they agree on input,
\* num_comps, retries and the stop_at of their Cache; a store changes the
\* entry of its own tuple and of no other, one of another stop_at included.
C15_KeyOfFour ==
    cache.last.op \in {"store", "retrieve"} =>
       \A call \in CacheCalls :
          /\ CallKey(call) = cache.last.key <=> CallTuple(call) = cache.last.tuple
          /\ (cache.last.op = "store" /\ CallTuple(call) # cache.last.tuple) =>
                RedisGet(cache.redis, CallKey(call))
                   = RedisGet(cache.last.before, CallKey(call))

\* A store by the Cache of stop_at 1 beside the entry of the same query
\* under stop_at 10, which holds another result.
C15_Witness ==
    /\ cache.last.op = "store"
    /\ cache.last.ret.tag = "Ok"
    /\ cache.last.tuple[4] = 1
    /\ LET other == [cache.last.tuple EXCEPT ![4] = 10]
       IN /\ other \in DOMAIN cache.stored
          /\ cache.stored[other] # cache.last.result
          /\ \E call \in CacheCalls :
                /\ CallTuple(call) = other
                /\ from_str(cache.redis[CallKey(call)]) = Some(cache.stored[other])

\* C16: a step of a task at a level above 0 that queries a prompt and has
\* weaves of the returned candidates fail leaves the task running or
\* finished, never panicked; the candidates whose weave failed are in
\* new_comps as they came, the others woven into the prompt, and what was
\* in new_comps stays; the prompts after it are still queried, so the task
\* finishes with every prompt queried and returns new_comps.
C16_Step ==
    /\ task.st = "querying" => task.level > 0
    /\ Len(task'.log) > Len(task.log) =>
          LET e == task'.log[Len(task'.log)]
              got == IF e.comps.tag = "Some" THEN e.comps.val ELSE <<>>
          IN /\ task.st = "querying"
             /\ Len(task'.log) = Len(task.log) + 1
             /\ e.prompt = Head(task.prompts)
             /\ task'.prompts = Tail(task.prompts)
             /\ e.failing \subseteq DOMAIN got
             /\ faults' = faults + Cardinality(e.failing)
             /\ task'.st = (IF task'.prompts = <<>> THEN "finished" ELSE "querying")
             /\ task'.new_comps = task.new_comps
                    \cup {got[j].code : j \in e.failing}
                    \cup {weave(e.prompt, got[j].code, 0) : j \in DOMAIN got \ e.failing}
    /\ (task'.st = "finished" /\ task.level > 0) =>
          /\ Len(task'.log) = task'.nprompts
          /\ {task'.result.val[2][i] : i \in DOMAIN task'.result.val[2]}
                = task'.new_comps
    /\ (task'.st = "panicked" /\ task.st = "querying") =>
          /\ task'.log = task.log
          /\ task'.new_comps = task.new_comps

C16_WeaveFailureKeepsRaw == [][C16_Step]_vars

\* A finished task that queried two prompts; of the two candidates of the
\* first, one failed to weave and is in the result as it came beside the
\* other, woven, and beside a woven candidate of the second prompt.
C16_Witness ==
    /\ task # Idle
    /\ task.st = "finished"
    /\ task.level > 0
    /\ Len(task.log) >= 2
    /\ task.log[1].comps.tag = "Some"
    /\ Len(task.log[1].comps.val) = 2
    /\ task.log[1].failing = {1}
    /\ LET comps == {task.result.val[2][i] : i \in DOMAIN task.result.val[2]}
       IN /\ task.log[1].comps.val[1].code \in comps
          /\ weave(task.log[1].prompt, task.log[1].comps.val[2].code, 0) \in comps
          /\ task.log[2].comps.tag = "Some"
          /\ Len(task.log[2].comps.val) >= 1
          /\ weave(task.log[2].prompt, task.log[2].comps.val[1].code, 0) \in comps

\* The tasks of the pipeline that queried, and what a queried prompt
\* contributed to the candidates of its node.
QueryingTasks ==
    {handles[l][i] : <<l, i>> \in
        UNION {{<<l, i>> : i \in DOMAIN handles[l]} : l \in DOMAIN handles}}

Contribution(e) ==
    IF e.comps.tag = "None" THEN {}
    ELSE {IF j \in e.failing THEN e.comps.val[j].code
          ELSE weave(e.prompt, e.comps.val[j].code, 0) : j \in DOMAIN e.comps.val}

AllExhausted ==
    /\ \E t \in QueryingTasks : t.log # <<>>
    /\ \A t \in QueryingTasks : \A k \in DOMAIN t.log : t.log[k].comps.tag = "None"

\* C17: a task that has returned has queried every one of its prompts, and
\* its candidates are those of the prompts that were answered, a prompt
\* for which retry_query_until_ok gave None adding nothing; no task
\* panics and tree_complete does not abort unless a language server call
\* failed; when no prompt of the run was answered the root's list is empty
\* and disassemble returns the empty list.
C17_ExhaustedPromptSkipped ==
    /\ \A t \in QueryingTasks :
          (t.level > 0 /\ t.st \in {"finished", "joined"}) =>
             /\ Len(t.log) = t.nprompts
             /\ t.prompts = <<>>
             /\ Range(t.result.val[2]) = UNION {Contribution(t.log[k]) : k \in DOMAIN t.log}
    /\ \A t \in QueryingTasks : t.st = "panicked" => faults > 0
    /\ stage = "Aborted" => faults > 0
    /\ (AllExhausted /\ stage \in {"Completed", "Disassembled"}) =>
          handles[1][1].result = Some(<<tree.name, <<>>>>)
    /\ (AllExhausted /\ stage = "Disassembled") => output = Some(<<>>)

\* A Completed pipeline with a node of two prompts, the first given up
\* after the retries, the second answered and its candidates kept.
C17_Witness ==
    /\ stage = "Completed"
    /\ \E t \in QueryingTasks :
          /\ t.st = "joined"
          /\ Len(t.log) = 2
          /\ t.log[1].comps.tag = "None"
          /\ t.log[2].comps.tag = "Some"
          /\ t.log[2].comps.val # <<>>
          /\ Range(t.result.val[2]) = Contribution(t.log[2])
          /\ Contribution(t.log[2]) # {}

\* The number of blocks of a tree.
RECURSIVE TreeBlocks(_)
TreeBlocks(t) ==
    IF t.children = <<>> THEN 1
    ELSE 1 + SeqSum([j \in DOMAIN t.children |-> TreeBlocks(t.children[j])])

\* C18: prepare ends in Err exactly in the step for a child whose usages
\* call failed; with it the levels and the frontier built so far are gone,
\* the run is prepare followed by Err, and no step follows: no further
\* child is visited and nothing is there to call tree_complete on.  A
\* prepare that returned Ok had no usages call fail.
C18_Step ==
    /\ stage # "PrepareFailed"
    /\ stage' = "PrepareFailed" =>
          /\ stage = "Preparing" /\ pc = "for"
          /\ params.usages
          /\ ~starts_with_topnode(Head(Pending(p_children)[1][2]).name)
          /\ faults' = faults + 1
          /\ ran' = <<"prepare", "Err">>
          /\ levels' = <<>> /\ nodes' = <<>>
          /\ p_children' = <<>> /\ new_children' = <<>>
          /\ ~CanTreeComplete' /\ ~CanPrepare' /\ ~CanDisassemble'
    /\ (stage = "Preparing" /\ faults' > faults) => stage' = "PrepareFailed"
    /\ stage' = "Prepared" => faults' = 0

C18_UsagesFailureFailsPrepare == [][C18_Step]_vars

\* prepare failed at a child after another was taken, with blocks of the
\* tree not visited.
C18_Witness ==
    /\ stage = "PrepareFailed"
    /\ ran = <<"prepare", "Err">>
    /\ levels = <<>>
    /\ stats.tag = "Some"
    /\ stats.val.num_nodes >= 2
    /\ stats.val.num_nodes < TreeBlocks(tree) - 1

\* The language server calls that failed in a task where it unwraps the
\* result: all that failed after prepare, but the weaves of candidates.
WeavesRecovered ==
    SeqSum([l \in DOMAIN handles |->
              SeqSum([i \in DOMAIN handles[l] |->
                        SeqSum([k \in DOMAIN handles[l][i].log |->
                                  Cardinality(handles[l][i].log[k].failing)])])])

Unrecovered == IF stage = "PrepareFailed" THEN 0 ELSE faults - WeavesRecovered

\* C19: once a weave of the merges, a stub or a pretty_print has failed in
\* a task, that task has panicked, and tree_complete is still running or
\* has ended in the panic of its join, with the levels gone; the pipeline
\* is never Completed or Disassembled and no candidate list is returned.
\* Without such a failure no task panics and tree_complete does not abort.
C19_FailureAborts ==
    /\ Unrecovered > 0 =>
          /\ \E t \in QueryingTasks :
                /\ t.st = "panicked"
                /\ t.called \cap {"weave", "stub", "pretty_print"} # {}
          /\ stage \in {"Completing", "Aborted"}
          /\ output = None
    /\ Unrecovered = 0 =>
          /\ \A t \in QueryingTasks : t.st # "panicked"
          /\ stage # "Aborted"
    /\ stage = "Aborted" =>
          /\ levels = <<>>
          /\ ran = <<"prepare", "tree_complete", "panic">>
          /\ ~CanDisassemble
    /\ stage \in {"Completed", "Disassembled"} =>
          \A t \in QueryingTasks : t.st = "joined"

\* tree_complete ended in a panic after a task below had returned
\* candidates: a failing stub, pretty_print or merge weave in another.
C19_Witness ==
    /\ stage = "Aborted"
    /\ output = None
    /\ \E t \in QueryingTasks : t.st = "panicked"
    /\ \E t \in QueryingTasks : t.st = "joined" /\ t.result.val[2] # <<>>

\* The places <<l, i>> of the nodes below the root, and the parent of one.
BelowRoot ==
    UNION {{<<l, i>> : i \in DOMAIN levels[l]} : l \in 2..Len(levels)}

ParentAt(l, i) ==
    levels[l - 1][CHOOSE p \in DOMAIN levels[l - 1] :
                     (i - 1) \in Range(levels[l - 1][p].children_idxs)]

\* C20: after prepare the usages calls made are, each once, those with
\* (parent code, child code) of the nodes below the root whose name does
\* not begin with topnode, and none at all when params.usages is off; such
\* a node carries the reply, every other node, the root included, the
\* empty string.
C20_UsagesCalls ==
    /\ Cardinality(Range(asked)) = Len(asked)
    /\ ~params.usages => asked = <<>>
    /\ stage = "Prepared" =>
          LET wanted == {n \in BelowRoot :
                           params.usages /\ levels[n[1]][n[2]].name[1] # "topnode"}
          IN /\ levels[1][1].usages = <<>>
             /\ Range(asked) = {<<ParentAt(n[1], n[2]).code, levels[n[1]][n[2]].code>>
                                  : n \in wanted}
             /\ \A n \in wanted :
                   levels[n[1]][n[2]].usages
                      = usages(ParentAt(n[1], n[2]).code, levels[n[1]][n[2]].code)
             /\ \A n \in BelowRoot \ wanted : levels[n[1]][n[2]].usages = <<>>

\* A prepared tree of three levels with usages on: the node of the third
\* level carries the usages of its code in that of its parent, not the
\* root, and one call was made for each of the nodes below the root.
C20_Witness ==
    /\ stage = "Prepared"
    /\ params.usages
    /\ Len(levels) >= 3
    /\ Len(asked) = TreeBlocks(tree) - 1
    /\ levels[3][1].usages = usages(levels[2][1].code, levels[3][1].code)
    /\ levels[2][1].usages = usages(levels[1][1].code, levels[2][1].code)

\* C21: a deserialization returns Ok(v) exactly when the value is the
\* string that is the name of the variant v, for the three variants of
\* CheckProblem, and an error for every other string and every value that
\* is no string.
C21_DeserializeTags ==
    \A k \in DOMAIN problem.log :
       LET e == problem.log[k]
       IN /\ e.ret.tag \in {"Ok", "Err"}
          /\ \A v \in CheckProblem :
                e.ret = Ok(v) <=> e.value = Some(VariantName(v))
          /\ e.ret.tag = "Ok" => e.ret.val \in CheckProblem

\* One tag accepted as its variant and, next, the same tag behind a blank
\* refused.
C21_Witness ==
    /\ Len(problem.log) = 2
    /\ problem.log[1].value = Some(VariantName("ChangedComments"))
    /\ problem.log[1].ret = Ok("ChangedComments")
    /\ problem.log[2].value = Some(<<" ">> \o VariantName("ChangedComments"))
    /\ problem.log[2].ret.tag = "Err"

\* A prompt that came from `code` by weaves at nettle level lvl only.
RECURSIVE WovenAt(_, _, _)
WovenAt(prompt, code, lvl) ==
    \/ prompt = code
    \/ /\ prompt[1] = "weave"
       /\ prompt[4] = lvl
       /\ WovenAt(prompt[2], code, lvl)

\* The prompts of a task seen so far: those still to query, those queried,
\* and at the root those returned.
PromptsSeen(t) ==
    Range(t.prompts) \cup {t.log[k].prompt : k \in DOMAIN t.log}
       \cup (IF t.level = 0 /\ t.st = "finished" THEN Range(t.result.val[2]) ELSE {})

\* C22: the prompts of a task that has merged its children came from the
\* node's code by weaves at nettle level 0 when the task is at level 0 and
\* 1 at every other level, whichever strategy merged the children; the
\* candidates of the engine are woven into their prompt at level 0.
C22_NettleLevels ==
    /\ \A prompt \in PromptsSeen(task) :
          /\ WovenAt(prompt, task.node.code, IF task.level = 0 THEN 0 ELSE 1)
          /\ task.node.children_idxs # <<>> => prompt # task.node.code
    /\ \A comp \in task.new_comps :
          comp[1] = "weave" =>
             /\ comp[4] = 0
             /\ \E k \in DOMAIN task.log :
                   /\ comp[2] = task.log[k].prompt
                   /\ comp[3] \in {c.code : c \in Range(Got(task.log[k].comps))}

\* A task at level 2 whose prompts were woven at level 1 from two
\* children, one of them by the Poisson merge, and which returned a
\* candidate woven into such a prompt at level 0.
C22_Witness ==
    /\ task # Idle
    /\ task.level = 2
    /\ task.st = "finished"
    /\ Len(task.node.children_idxs) = 2
    /\ \E j \in 1..2 :
          Len(task.prev_level.val[j].completed) > task.budgets[j]
    /\ \E comp \in Range(task.result.val[2]) :
          /\ comp[1] = "weave" /\ comp[4] = 0
          /\ comp[2][1] = "weave" /\ comp[2][4] = 1
          /\ comp[2][2][1] = "weave" /\ comp[2][2][4] = 1

\* The i-th of k shares of stop_at, the first stop_at % k a unit larger.
ShareOf(stop_at, k, i) ==
    (stop_at \div k) + (IF i <= stop_at % k THEN 1 ELSE 0)

\* C23: the merges of a task run through children_idxs from its first
\* entry to its last; the i-th merges the node of the level below at the
\* i-th child_idx, with the i-th share of max(stop_at, k) among the k
\* children as its budget, into the prompt set the merge before it left,
\* the first into the set of the node's code alone; what the last leaves
\* is the prompt set of the task.
C23_MergesInOrder ==
    merge.at \in {"for", "merged"} =>
       LET k == Len(merge.node.children_idxs)
           stop_at == IF params.stop_at >= k THEN params.stop_at ELSE k
           done == Len(merge.trail)
       IN /\ done <= k
          /\ merge.at = "merged" => done = k
          /\ \A i \in 1..done :
                /\ merge.trail[i].child
                      = merge.prev_level.val[merge.node.children_idxs[i] + 1]
                /\ merge.trail[i].upper = ShareOf(stop_at, k, i)
                /\ merge.trail[i].before =
                      (IF i = 1 THEN {merge.node.code} ELSE merge.trail[i - 1].after)
          /\ merge.prompts_set =
                (IF done = 0 THEN {merge.node.code} ELSE merge.trail[done].after)

\* Two children that are not the first two of the level below, of
\* different sizes and with different budgets, merged in their order.
C23_Witness ==
    /\ merge.at = "merged"
    /\ merge.node.children_idxs = <<1, 2>>
    /\ Len(merge.trail) = 2
    /\ merge.trail[1].upper > merge.trail[2].upper
    /\ Len(merge.trail[1].child.completed) # Len(merge.trail[2].child.completed)
    /\ merge.trail[1].child = merge.prev_level.val[2]
    /\ merge.trail[2].child = merge.prev_level.val[3]
    /\ merge.trail[2].before = merge.trail[1].after
    /\ merge.prompts_set # {}

\* C24: while tree_complete runs and after it, a node whose task has been
\* joined holds in completed the list that task returned, whatever the
\* names of the nodes of its level.
C24_NodeHoldsOwnResult ==
    stage \in {"Completing", "Completed"} =>
       \A l \in DOMAIN handles : \A i \in DOMAIN handles[l] :
          handles[l][i].st = "joined" =>
             levels[l][i].completed = handles[l][i].result.val[2]

\* Completed with two nodes of one level under one name: the task of the
\* first returned candidates, and the node is left without any.
C24_Witness ==
    /\ stage = "Completed"
    /\ \E l \in DOMAIN levels : \E i, j \in DOMAIN levels[l] :
          /\ i < j
          /\ levels[l][i].name = levels[l][j].name
          /\ handles[l][i].st = "joined"
          /\ handles[l][i].result.val[2] # <<>>
          /\ levels[l][i].completed = <<>>

\* C25: the merge of a child leaves at most `upper` prompts, upper being
\* the child's budget, whichever strategy merged it and whatever the sizes
\* of the prompt set and of the child's completed list.
C25_MergeWithinBudget ==
    merge.at \in {"for", "merged"} =>
       \A i \in DOMAIN merge.trail :
          Cardinality(merge.trail[i].after) <= merge.trail[i].upper

\* A child of one candidate merged into more prompts than its budget: the
\* count is 1, all combinations are taken, and as many prompts are left.
C25_Witness ==
    /\ merge.at = "merged"
    /\ \E i \in DOMAIN merge.trail :
          /\ Len(merge.trail[i].child.completed) = 1
          /\ Cardinality(merge.trail[i].before) > merge.trail[i].upper
          /\ ~merge.trail[i].poisson
          /\ Cardinality(merge.trail[i].after) = Cardinality(merge.trail[i].before)


\* The most passes of the loop the statement allows for one call.
PoissonPasses ==
    Min(pmerge.upper * 5,
        Cardinality(pmerge.prompts_set) * Len(pmerge.child.completed))

\* The statement for the calls whose upper * 5 is a usize.
PoissonBounds ==
    /\ pmerge.at # "panicked"
    /\ pmerge.at \in {"while", "returned"} =>
          /\ pmerge.enumerated <= pmerge.upper * 5
          /\ pmerge.pick # None =>
                LET pick == pmerge.pick.val
                IN /\ pick.len >= 1
                   /\ pick.idx \in 0..(pick.len - 1)
                   /\ pick.idx = Min(pick.sample, pick.len - 1)
                   /\ Len(pmerge.all_combs) = pick.len - 1
          /\ pmerge.passes + Len(pmerge.all_combs) = pmerge.enumerated
          /\ pmerge.weaves = pmerge.passes
          /\ pmerge.passes <= PoissonPasses
    /\ pmerge.at = "returned" =>
          /\ Cardinality(pmerge.ret) <= pmerge.upper
          /\ (/\ pmerge.upper >= 1
              /\ pmerge.prompts_set # {}
              /\ pmerge.child.completed # <<>>) => pmerge.ret # {}

\* C26: in the Poisson merge, for every prompt set, child and upper, at most
\* upper * 5 pairs are enumerated, every pass of the loop removes one pair
\* at an index that is valid after clamping and weaves it once, the loop
\* ends after at most min(upper * 5, |prompts| * |child.completed|) passes,
\* and the call leaves a prompt set of at most upper entries, of at least
\* one when upper >= 1 and both inputs are non-empty.
C26_PoissonLoop ==
    pmerge.at # "idle" => PoissonBounds

\* C26, the case: a call with prompts and candidates whose upper * 5 is
\* beyond usize::MAX panics in a build with overflow checks.
C26_Witness ==
    /\ pmerge.at = "panicked"
    /\ pmerge.upper >= 1
    /\ pmerge.prompts_set # {}
    /\ pmerge.child.completed # <<>>


\* The task merged a child that the level below holds without candidates.
MergedEmptyChild(t) ==
    /\ t.st \in {"querying", "finished", "joined"}
    /\ t.prev_level.tag = "Some"
    /\ \E j \in DOMAIN t.node.children_idxs :
          t.prev_level.val[ChildIdxOf(t.node, j) + 1].completed = <<>>

\* A node of the levels is without candidates.
SomeNodeEmpty(lvls) ==
    \E l \in DOMAIN lvls : \E i \in DOMAIN lvls[l] : lvls[l][i].completed = <<>>

\* C27: a node one of whose children has no candidates is left with an
\* empty prompt set by its merges, submits no query and returns no
\* candidates; and when tree_complete has ended with any node of the tree
\* without candidates, the root has none and disassemble returns none.
C27_EmptyChildEmptiesAll ==
    /\ \A t \in QueryingTasks :
          MergedEmptyChild(t) =>
             /\ t.nprompts = 0
             /\ t.queries = 0
             /\ t.st # "querying"
             /\ t.result = Some(<<t.node.name, <<>>>>)
    /\ (stage = "Completed" /\ SomeNodeEmpty(levels)) =>
          RootCompleted(levels) = <<>>
    /\ (stage = "Disassembled" /\ SomeNodeEmpty(Tail(levels))) =>
          output = Some(<<>>)

\* The pipeline is through for a tree of three levels: the leaf ended
\* without candidates, so did its parent, and the root returned none.
C27_Witness ==
    /\ stage = "Disassembled"
    /\ output = Some(<<>>)
    /\ Len(handles) = 3
    /\ \E i \in DOMAIN handles[3] : handles[3][i].result.val[2] = <<>>
    /\ \E i \in DOMAIN handles[2] :
          /\ MergedEmptyChild(handles[2][i])
          /\ handles[2][i].result.val[2] = <<>>
    /\ MergedEmptyChild(handles[1][1])


\* The list holds no string twice.
NoDuplicate(list) == Cardinality(Range(list)) = Len(list)

\* x is a prompt of the root after the merges of its first j children:
\* its code, or a candidate of child j woven at level 0 into such a prompt
\* of the first j - 1 children.
RECURSIVE RootProduced(_, _, _, _)
RootProduced(x, root, below, j) ==
    IF j = 0 THEN x = root.code
    ELSE /\ Len(x) = 4
         /\ x[1] = "weave"
         /\ x[3] \in Range(below[ChildIdxOf(root, j) + 1].completed)
         /\ x[4] = 0
         /\ RootProduced(x[2], root, below, j - 1)

\* C28: after tree_complete no completed list of a node holds a string
\* twice, nor does the list disassemble returns; and every candidate of
\* the root is the root's code, the root having no children, or a weave at
\* level 0 of one candidate of each child in turn into the root's code.
C28_NoDuplicateNoStranger ==
    /\ stage = "Completed" =>
          /\ \A l \in DOMAIN levels : \A i \in DOMAIN levels[l] :
                NoDuplicate(levels[l][i].completed)
          /\ \A x \in Range(RootCompleted(levels)) :
                RootProduced(x, levels[1][1], IF Len(levels) > 1 THEN levels[2] ELSE <<>>,
                             Len(levels[1][1].children_idxs))
    /\ stage = "Disassembled" =>
          /\ output.tag = "Some"
          /\ NoDuplicate(output.val)
          /\ \A x \in Range(output.val) :
                RootProduced(x, handles[1][1].node,
                             IF Len(levels) > 1 THEN levels[2] ELSE <<>>,
                             Len(handles[1][1].node.children_idxs))

\* Disassembled with a candidate of a root of two children, an engine
\* answer below having given one completion twice.
C28_Witness ==
    /\ stage = "Disassembled"
    /\ output.val # <<>>
    /\ Len(handles[1][1].node.children_idxs) = 2
    /\ \E t \in QueryingTasks : \E k \in DOMAIN t.log :
          /\ t.log[k].comps.tag = "Some"
          /\ ~NoDuplicate(t.log[k].comps.val)
          /\ t.st = "joined"
          /\ Len(t.result.val[2]) < 2 * Len(t.log)


\* The children prepare visits for the trees of the pipelines that hold
\* the sink: the blocks of each tree but its root.
SharedChildren ==
    SeqSum([p \in 1..SharedPipes |->
              IF shared.pipes[p].sink THEN TreeBlocks(shared.pipes[p].tree) - 1
              ELSE 0])

SharedCounted ==
    SeqSum([p \in 1..SharedPipes |->
              IF shared.pipes[p].sink THEN shared.pipes[p].counted ELSE 0])

SharedPrepared(p) ==
    shared.pipes[p].at \in {"prepared", "complete", "completed", "disassembled"}

\* C29: pipelines that share one sink update it under its lock, one at a
\* time, and no increment is lost: num_nodes is the number of children
\* visited so far, and once all have prepared it is the number of blocks
\* of their trees that are not roots.  A pipeline without statistics
\* updates nothing, and it produces the levels and the candidates that a
\* pipeline with the sink produces for the same tree.
C29_NoIncrementLost ==
    shared.at # "idle" =>
       /\ shared.sink.num_nodes = SharedCounted
       /\ (\A p \in 1..SharedPipes : SharedPrepared(p)) =>
             shared.sink.num_nodes = SharedChildren
       /\ \A p, q \in 1..SharedPipes :
             (shared.pipes[p].held /\ shared.pipes[q].held) => p = q
       /\ \A p \in 1..SharedPipes :
             /\ shared.pipes[p].held => shared.holder = p /\ shared.pipes[p].sink
             /\ SharedPrepared(p) =>
                   shared.pipes[p].counted = TreeBlocks(shared.pipes[p].tree) - 1
       /\ \A p, q \in 1..SharedPipes :
             shared.pipes[p].tree = shared.pipes[q].tree =>
                /\ (SharedPrepared(p) /\ SharedPrepared(q)) =>
                      shared.pipes[p].prepared = shared.pipes[q].prepared
                /\ (/\ shared.pipes[p].at = "disassembled"
                    /\ shared.pipes[q].at = "disassembled") =>
                      shared.pipes[p].output = shared.pipes[q].output

\* All pipelines are through; two of them, each for a tree with children,
\* shared the sink.
C29_Witness ==
    /\ shared.at # "idle"
    /\ \A p \in 1..SharedPipes : shared.pipes[p].at = "disassembled"
    /\ \E p, q \in 1..SharedPipes :
          /\ p # q
          /\ shared.pipes[p].sink /\ shared.pipes[q].sink
          /\ shared.pipes[p].counted >= 1 /\ shared.pipes[q].counted >= 1
          /\ shared.sink.num_nodes >= 2


\* The blocks of a tree: each with the places of its ancestors and itself
\* among their siblings (the root is at <<>>), its name and its code.
RECURSIVE BlocksAt(_, _)
BlocksAt(t, path) ==
    {[path |-> path, name |-> t.name, code |-> t.code]}
    \cup UNION {BlocksAt(t.children[j], Append(path, j)) : j \in DOMAIN t.children}

\* C30: after depth_limit(d) the blocks of the tree are those it had at
\* depth d or less, each at its place among its siblings with its name and
\* code: no block lies deeper than d, none at depth d or less is lost,
\* the children of the blocks at depth d are gone; a second
\* depth_limit(d) changes nothing.
C30_DepthLimit ==
    limited.at = "limited" =>
       /\ BlocksAt(limited.tree, <<>>) =
             {b \in BlocksAt(limited.before, <<>>) : Len(b.path) <= limited.depth}
       /\ TreeHeight(limited.tree) <= limited.depth
       /\ \A b \in BlocksAt(limited.before, <<>>) :
             Len(b.path) = limited.depth + 1 => b \notin BlocksAt(limited.tree, <<>>)
       /\ limited.tree = limited.first.val

\* depth_limit(1) called twice on a tree of height 2 or more: children of
\* the root are left, their children are gone.
C30_Witness ==
    /\ limited.at = "limited"
    /\ limited.calls = 2
    /\ limited.depth = 1
    /\ TreeHeight(limited.before) >= 2
    /\ TreeHeight(limited.tree) = 1
    /\ TreeBlocks(limited.tree) < TreeBlocks(limited.before)

====
